---- MODULE Spec2Model ----
(***************************************************************************)
(* Model of the ijhandlealloc handle allocators.                           *)
(*                                                                         *)
(* A C 'unsigned' is a 32-bit word.  A word is modelled as the set of the  *)
(* positions of its 1-bits (a subset of 0..31): '&' is intersection, '|'   *)
(* is union, '~' is the complement in 0..31, '+' is a 32-bit addition      *)
(* with carry look-ahead that drops the carry out of bit 31.               *)
(***************************************************************************)
EXTENDS Integers, Naturals, Sequences, FiniteSets, TLC

(***************************************************************************)
(* Bounds of the model.                                                    *)
(***************************************************************************)
\* largest max_num_handles a configuration is initialised with
MaxHandles == 3
\* largest number of generation bits G a configuration is left with
MaxGenBits == 2
\* thread-safe variant: largest value of the freelist serial that is explored
MaxSerial == 9
\* the number of threads that call the thread-safe variant at the same time
NumThreads == 2
\* compare-and-swaps of other threads are counted up to here
MaxSince == 4
\* of a pool of 2^30 handles, the slots 0..MaxSlots-1 are followed
MaxSlots == 4
\* the steps that are followed after a compare-and-swap succeeded on a wrapped serial
MaxAfterWrap == 8

\* the handles a thread holds at a time where progress is examined
MaxHeld == 1

(***************************************************************************)
(* 32-bit words.                                                           *)
(***************************************************************************)
Bits32 == 0..31

Pow2(n) == 2 ^ n

\* the word of a number below 2^31
ToWord(n) == {i \in 0..30 : (n \div Pow2(i)) % 2 = 1}

RECURSIVE BitsValue(_, _)
\* the number of the bits i.. of w
BitsValue(w, i) ==
    IF \A j \in w : j < i THEN 0
    ELSE (IF i \in w THEN Pow2(i) ELSE 0) + BitsValue(w, i + 1)

\* the number of a word below 2^31
ToNat(w) == BitsValue(w, 0)

And(x, y) == x \cap y
Or(x, y) == x \cup y
Not32(x) == Bits32 \ x
Shl32(x, n) == {i + n : i \in x} \cap Bits32
Shr32(x, n) == {i - n : i \in {j \in x : j >= n}}

\* where a carry out of bit j ends: the first bit above j that does not pass
\* it on (32: it leaves the word); p = x | y are the bits that pass a carry on
CarryEnd(j, p) ==
    CHOOSE k \in (j + 1)..32 :
        /\ k = 32 \/ k \notin p
        /\ \A m \in (j + 1)..(k - 1) : m \in p

\* the bits of x + y that receive a carry; g = x & y are the bits that make one
Carries(g, p) == UNION {(j + 1)..CarryEnd(j, p) : j \in g} \cap Bits32

\* x + y on unsigned, x & y and x | y taken as values
Add32(x, y) ==
    UNION {IF g = {} THEN p
           ELSE UNION {((p \ g) \ c) \cup (c \ (p \ g)) : c \in {Carries(g, p)}} :
              g \in {x \cap y}, p \in {x \cup y}}

Zero32 == {}
One32 == {0}
AllOnes32 == Bits32

\* x - 1 on unsigned
Dec32(x) == Add32(x, AllOnes32)
\* x + 1 on unsigned
Inc32(x) == Add32(x, One32)

IJHA_H32_INVALID_INDEX == AllOnes32

(***************************************************************************)
(* enum ijha_h32_init_res / enum ijha_h32_init_flags                       *)
(***************************************************************************)
IJHA_H32_INIT_NO_ERROR == {}
IJHA_H32_INIT_CONFIGURATION_UNSUPPORTED == {0}
IJHA_H32_INIT_THREADSAFE_UNSUPPORTED == {1}
IJHA_H32_INIT_USERDATA_TOO_BIG == {2}
IJHA_H32_INIT_HANDLE_OFFSET_TOO_BIG == {3}
IJHA_H32_INIT_HANDLE_NON_INLINE_SIZE_TOO_BIG == {4}
IJHA_H32_INIT_INVALID_INPUT_FLAGS == {5}

IJHA_H32_INIT_LIFO == {6}
IJHA_H32_INIT_FIFO == {7}
IJHA_H32_INIT_LIFOFIFO_MASK == {6, 7}
IJHA_H32_INIT_THREADSAFE == {8}
IJHA_H32_INIT_DONT_USE_MSB_AS_IN_USE_BIT == {9}

(***************************************************************************)
(* State of one allocator: the fields of struct ijha_h32 and the handle    *)
(* words of the memory area (handles[i] is *ijha_h32_handle_info_at(i)).   *)
(***************************************************************************)
VARIABLES
    handles,
    acquire_func,
    release_func,
    flags_num_userflag_bits,
    handles_stride_userdata_offset,
    size,
    capacity,
    capacity_mask,
    generation_mask,
    userflags_mask,
    in_use_bit,
    freelist_enqueue_index,
    freelist_dequeue_index

\* the fields ijha_h32_initex fixes
config == <<acquire_func, release_func, flags_num_userflag_bits,
            handles_stride_userdata_offset, capacity,
            capacity_mask, generation_mask, userflags_mask, in_use_bit>>

\* the fields and words the operations change
core == <<handles, size, freelist_enqueue_index, freelist_dequeue_index>>

(***************************************************************************)
(* The last call and what it returned, and what the caller holds.          *)
(***************************************************************************)
VARIABLES
    lastop,     \* "init", "acquire", "release", "userflags_set", "reset"
    arg,        \* the userflags (acquire) or the handle (release, userflags_set) passed
    arg2,       \* the userflags passed to userflags_set
    ret,        \* the value returned
    handle_out, \* *handle_out of acquire
    held,       \* the handles acquired and not yet released
    follow,     \* whether a released handle is followed in this behaviour
    stale,      \* a released handle that is followed: [h, n] or NoStale
    run,        \* the releases and acquires of the current run: [rel, acq, free]
    fresh       \* no handle has been released since ijha_h32_initex or ijha_h32_reset

call == <<lastop, arg, arg2, ret, handle_out>>
ghost == <<held, follow, stale, run, fresh>>

(***************************************************************************)
(* The threads that call the thread-safe variant at the same time: where   *)
(* each is in ijha_h32__acquire_lifo_ts or ijha_h32__release_lifo_ts, its  *)
(* local variables, and the handles it holds.                              *)
(***************************************************************************)
VARIABLES
    pc,         \* the statement each thread executes next, "idle" between calls
    loc,        \* the local variables of the call each thread is in
    owned,      \* the handles each thread has acquired and not yet released
    since,      \* per thread: the compare-and-swaps of other threads that succeeded
                \* since its load of freelist_dequeue_index (counted up to MaxSince)
    wrapped     \* 0 until a compare-and-swap succeeds although others succeeded since
                \* the load; from then on the number of steps taken, up to MaxAfterWrap

threads == <<pc, loc, owned, since, wrapped>>

vars == <<config, core, call, ghost, threads>>

(***************************************************************************)
(* Macros of the interface.                                                *)
(***************************************************************************)
ijha_h32_is_fifo ==
    And(flags_num_userflag_bits, IJHA_H32_INIT_FIFO) = IJHA_H32_INIT_FIFO

IsThreadSafe == And(flags_num_userflag_bits, IJHA_H32_INIT_THREADSAFE) # Zero32

\* how many handles can be used
ijha_h32_capacity ==
    capacity - (IF And(flags_num_userflag_bits,
                       Or(IJHA_H32_INIT_FIFO, IJHA_H32_INIT_THREADSAFE)) # Zero32
                THEN 1 ELSE 0)

ijha_h32_index(handle) == And(capacity_mask, handle)

ijha_h32_in_use(handle) == And(handle, in_use_bit)

\* *ijha_h32_handle_info_at(self, index), index a number below capacity
ijha_h32_handle_info_at(index) == handles[index]

ijha_h32_valid_mask(handle, handlemask) ==
    /\ capacity > ToNat(And(handle, capacity_mask))
    /\ ijha_h32_in_use(handle) # Zero32
    /\ And(ijha_h32_handle_info_at(ToNat(And(handle, capacity_mask))), handlemask)
         = And(handle, handlemask)

ijha_h32_valid(handle) == ijha_h32_valid_mask(handle, AllOnes32)

\* the stored userflags of a handle or index
ijha_h32_userflags(handle_or_index) ==
    And(ijha_h32_handle_info_at(ToNat(ijha_h32_index(handle_or_index))), userflags_mask)

\* the fields of handles_stride_userdata_offset
ijha_h32_handle_stride(v) == And(v, 0..15)
ijha_h32_handle_offset(v) == Shr32(And(v, 16..23), 16)
ijha_h32_userdata_offset(v) == Shr32(And(v, 24..31), 24)

\* variant: the first generation bit is taken to be capacity_mask + 1 in both layouts
ijha_h32__generation_add_IgnoreLayout == Inc32(capacity_mask)

\* the value that advances the generation field by one
ijha_h32__generation_add ==
    IF And(flags_num_userflag_bits, IJHA_H32_INIT_DONT_USE_MSB_AS_IN_USE_BIT) # Zero32
    THEN Shl32(Inc32(capacity_mask), 1)
    ELSE Inc32(capacity_mask)

(***************************************************************************)
(* ijha_h32_initex                                                         *)
(***************************************************************************)
ijha_h32__roundup(x) ==
    LET x0 == Dec32(x)
        x1 == Or(x0, Shr32(x0, 1))
        x2 == Or(x1, Shr32(x1, 2))
        x3 == Or(x2, Shr32(x2, 4))
        x4 == Or(x3, Shr32(x3, 8))
        x5 == Or(x4, Shr32(x4, 16))
    IN Inc32(x5)

\* while (n >>= 1) res++, the shifted n taken as a value
RECURSIVE ijha_h32__num_bits(_)
ijha_h32__num_bits(n) ==
    CHOOSE res \in {IF shifted = Zero32 THEN 0 ELSE 1 + ijha_h32__num_bits(shifted) :
                       shifted \in {Shr32(n, 1)}} : TRUE

\* the fields ijha_h32_initex stores before it calls ijha_h32_reset, and its result
ijha_h32_initex(max_num_handles, num_userflag_bits, non_inline_handle_size_bytes, handle_offset, userdata_size_in_bytes_per_item, ijha_flags) ==
    LET rounded == ijha_h32__roundup(ToWord(max_num_handles))
        cmask == Dec32(rounded)
        ufmask0 == IF num_userflag_bits # 0
                   THEN Shl32(AllOnes32, 32 - num_userflag_bits) ELSE Zero32
        gmask0 == Not32(Or(cmask, ufmask0))
        msb == And(ijha_flags, IJHA_H32_INIT_DONT_USE_MSB_AS_IN_USE_BIT) = Zero32
        ts == And(ijha_flags, IJHA_H32_INIT_THREADSAFE) # Zero32
        lifofifo == And(ijha_flags, IJHA_H32_INIT_LIFOFIFO_MASK)
        handles_stride == Add32(ToWord(non_inline_handle_size_bytes),
                                ToWord(userdata_size_in_bytes_per_item))
        e1 == IF And(ToWord(userdata_size_in_bytes_per_item), 16..31) # Zero32
              THEN IJHA_H32_INIT_USERDATA_TOO_BIG ELSE Zero32
        e2 == IF And(ToWord(non_inline_handle_size_bytes), 8..31) # Zero32
              THEN IJHA_H32_INIT_HANDLE_NON_INLINE_SIZE_TOO_BIG ELSE Zero32
        e3 == IF And(ToWord(handle_offset), 8..31) # Zero32
              THEN IJHA_H32_INIT_HANDLE_OFFSET_TOO_BIG ELSE Zero32
        e4 == IF And(ijha_flags, ToWord(31)) # Zero32
              THEN IJHA_H32_INIT_INVALID_INPUT_FLAGS ELSE Zero32
        \* (num_bits - 1) + num_userflag_bits >= 32 in unsigned arithmetic
        e5 == IF And(Add32(Dec32(ToWord(ijha_h32__num_bits(rounded))),
                           ToWord(num_userflag_bits)), 5..31) # Zero32
              THEN IJHA_H32_INIT_CONFIGURATION_UNSUPPORTED ELSE Zero32
        e6 == IF ts /\ lifofifo = IJHA_H32_INIT_FIFO
              THEN IJHA_H32_INIT_THREADSAFE_UNSUPPORTED ELSE Zero32
    IN [ flags_num_userflag_bits |->
             Or(Or(ijha_flags, ToWord(num_userflag_bits)),
                IF ts /\ lifofifo # IJHA_H32_INIT_FIFO THEN IJHA_H32_INIT_LIFO ELSE Zero32),
         handles_stride_userdata_offset |->
             Or(Or(handles_stride, Shl32(ToWord(non_inline_handle_size_bytes), 24)),
                Shl32(ToWord(handle_offset), 16)),
         capacity |-> max_num_handles,
         capacity_mask |-> cmask,
         in_use_bit |-> IF msb THEN {31} ELSE Inc32(cmask),
         generation_mask |-> IF msb THEN And(Shr32(gmask0, 1), Not32(cmask))
                             ELSE And(gmask0, Shl32(gmask0, 1)),
         userflags_mask |-> IF msb THEN Shr32(ufmask0, 1) ELSE ufmask0,
         acquire_func |-> IF ts
                          THEN (IF lifofifo = IJHA_H32_INIT_FIFO THEN "null"
                                ELSE "ijha_h32__acquire_lifo_ts")
                          ELSE "ijha_h32__acquire_userflags_lifo_fifo",
         release_func |-> IF ts
                          THEN (IF lifofifo = IJHA_H32_INIT_FIFO THEN "null"
                                ELSE "ijha_h32__release_lifo_ts")
                          ELSE (IF lifofifo = IJHA_H32_INIT_LIFO
                                THEN "ijha_h32__release_lifo"
                                ELSE "ijha_h32__release_fifo"),
         init_res |-> Or(Or(Or(e1, e2), Or(e3, e4)), Or(e5, e6)) ]

(***************************************************************************)
(* ijha_h32_reset: the words, size and cursors it leaves                   *)
(***************************************************************************)
\* variant: the generation field is left zero
ResetWord_NoGeneration(i, cap, gmask) ==
    IF i = cap - 1 THEN Zero32 ELSE ToWord(i + 1)

\* the word reset stores in slot i of cap slots
ResetWord(i, cap, gmask) ==
    IF i = cap - 1 THEN Or(Zero32, gmask) ELSE Or(ToWord(i + 1), gmask)

\* the slots of a pool of cap slots whose words are kept: all, up to MaxSlots
SlotsFollowed(cap) == IF cap > MaxSlots THEN MaxSlots ELSE cap

ijha_h32_reset(cap, gmask, flags) ==
    [ size |-> 0,
      handles |-> [i \in 0..(SlotsFollowed(cap) - 1) |-> ResetWord(i, cap, gmask)],
      freelist_enqueue_index |-> ToWord(cap - 1),
      freelist_dequeue_index |->
          IF And(flags, IJHA_H32_INIT_THREADSAFE) # Zero32 THEN One32 ELSE Zero32 ]

(***************************************************************************)
(* What is followed across calls.                                          *)
(*   stale: a handle that was released, and the number n of times its slot  *)
(*          has been acquired since; it is followed until the slot has been *)
(*          acquired NumGenerations times, or the allocator is reset.       *)
(*          Handles are followed in the behaviours of SpecStale only.       *)
(*   run:   FIFO only: the indices of the successful releases made in a row *)
(*          (rel), the indices of the successful acquires that directly     *)
(*          follow them (acq), and the number of free slots before the      *)
(*          first of these releases (free).                                 *)
(***************************************************************************)
\* the threads of the concurrent behaviours
Threads == 1..NumThreads

\* the local variables of a thread that is in no call
NoLocals == [userflags |-> Zero32, handle |-> Zero32,
             old_freelist_index_serial |-> Zero32, current_handle |-> Zero32,
             ret |-> Zero32, handle_out |-> Zero32]

\* the number of values of the generation field: 2^G
NumGenerations == Pow2(Cardinality(generation_mask))

NoStale == [on |-> FALSE, h |-> Zero32, n |-> 0]
NoRun == [rel |-> <<>>, acq |-> <<>>, free |-> 0]

\* a handle whose slot came round to it is followed no longer
StaleKept == IF stale.on /\ stale.n >= NumGenerations THEN NoStale ELSE stale

StaleAfterAcquire(index) ==
    IF StaleKept.on /\ And(StaleKept.h, capacity_mask) = index
    THEN [StaleKept EXCEPT !.n = @ + 1]
    ELSE StaleKept

\* a released handle may be followed from its release on, when none is
StaleAfterRelease(handle) ==
    IF StaleKept.on \/ ~follow THEN {StaleKept}
    ELSE {NoStale, [on |-> TRUE, h |-> handle, n |-> 0]}

RunAfterAcquire(index) ==
    IF run.rel # <<>>
    THEN [run EXCEPT !.acq = Append(@, ToNat(index))]
    ELSE NoRun

RunAfterRelease(index) ==
    IF run.rel # <<>> /\ run.acq = <<>>
    THEN [run EXCEPT !.rel = Append(@, ToNat(index))]
    ELSE [rel |-> <<ToNat(index)>>, acq |-> <<>>, free |-> capacity - size]

(***************************************************************************)
(* Acquire                                                                 *)
(***************************************************************************)
\* variant: the generation is not advanced
NewGeneration_NoBump(current_handle) == And(generation_mask, current_handle)

\* variant: generation 0 and generation all-ones are skipped, as ijha_fifo_h32 does
NewGeneration_Skip(current_handle) ==
    LET next_to_last == And(Shl32(generation_mask, 1), generation_mask)
    IN  IF next_to_last # Zero32 /\ And(current_handle, generation_mask) = next_to_last
        THEN ijha_h32__generation_add
        ELSE And(generation_mask, Add32(current_handle, ijha_h32__generation_add))

\* the generation field of the handle that replaces the word current_handle
NewGeneration(current_handle) ==
    And(generation_mask, Add32(current_handle, ijha_h32__generation_add))

\* variant: the userflags are left out of the handle
NewHandle_NoUserflags(userflags, current_handle, current_cursor) ==
    Or(NewGeneration(current_handle), Or(in_use_bit, current_cursor))

\* variant: the in-use bit is left out of the handle
NewHandle_NoInUse(userflags, current_handle, current_cursor) ==
    Or(Or(userflags, NewGeneration(current_handle)), current_cursor)

\* the handle acquire stores in slot current_cursor, whose word was current_handle
NewHandle(userflags, current_handle, current_cursor) ==
    Or(Or(userflags, NewGeneration(current_handle)), Or(in_use_bit, current_cursor))

\* variant: the slot a FIFO keeps free is handed out
PoolFull_IgnoreFifo == size = capacity

\* no handle is left: size has reached capacity - is_fifo
PoolFull == size = capacity - (IF ijha_h32_is_fifo THEN 1 ELSE 0)

ijha_h32__acquire_userflags_lifo_fifo(userflags) ==
    LET current_cursor == freelist_dequeue_index
    IN  /\ acquire_func = "ijha_h32__acquire_userflags_lifo_fifo"
        /\ And(userflags_mask, userflags) = userflags
        /\ lastop' = "acquire"
        /\ arg' = userflags
        /\ arg2' = Zero32
        /\ IF PoolFull
           THEN /\ handle_out' = Zero32
                /\ ret' = IJHA_H32_INVALID_INDEX
                /\ stale' = StaleKept
                /\ run' = NoRun
                /\ UNCHANGED <<core, held>>
           ELSE LET current_handle == ijha_h32_handle_info_at(ToNat(current_cursor))
                    new_cursor == And(current_handle, capacity_mask)
                    new_handle == NewHandle(userflags, current_handle, current_cursor)
                IN  /\ handles' = [handles EXCEPT ![ToNat(current_cursor)] = new_handle]
                    /\ handle_out' = new_handle
                    /\ freelist_dequeue_index' = new_cursor
                    /\ size' = size + 1
                    /\ ret' = current_cursor
                    /\ held' = held \cup {new_handle}
                    /\ stale' = StaleAfterAcquire(current_cursor)
                    /\ run' = RunAfterAcquire(current_cursor)
                    /\ UNCHANGED freelist_enqueue_index
        /\ UNCHANGED <<config, follow, fresh, threads>>

\* the number of bits of the sparse index: log2(capacity_mask + 1)
IndexBits == ijha_h32__num_bits(Inc32(capacity_mask))

\* the serial stored above the index in freelist_dequeue_index (thread-safe variant)
Serial == ToNat(Shr32(freelist_dequeue_index, IndexBits))

\* the word a successful compare-and-swap stores: serial increased, index replaced
NewIndexSerial(old_freelist_index_serial, index) ==
    Or(And(Add32(old_freelist_index_serial, Inc32(capacity_mask)), Not32(capacity_mask)),
       index)

\* one thread alone: the compare-and-swap of the first iteration succeeds
ijha_h32__acquire_lifo_ts(userflags) ==
    LET old_freelist_index_serial == freelist_dequeue_index
        current_index == And(old_freelist_index_serial, capacity_mask)
    IN  /\ acquire_func = "ijha_h32__acquire_lifo_ts"
        /\ And(userflags_mask, userflags) = userflags
        /\ lastop' = "acquire"
        /\ arg' = userflags
        /\ arg2' = Zero32
        /\ IF current_index = Zero32
           THEN /\ handle_out' = Zero32
                /\ ret' = IJHA_H32_INVALID_INDEX
                /\ stale' = StaleKept
                /\ run' = NoRun
                /\ UNCHANGED <<core, held>>
           ELSE LET current_handle == ijha_h32_handle_info_at(ToNat(current_index))
                    next_freelist_index == And(current_handle, capacity_mask)
                    new_handle == NewHandle(userflags, current_handle, current_index)
                IN  /\ Serial < MaxSerial
                    /\ freelist_dequeue_index' =
                           NewIndexSerial(old_freelist_index_serial, next_freelist_index)
                    /\ handles' = [handles EXCEPT ![ToNat(current_index)] = new_handle]
                    /\ handle_out' = new_handle
                    /\ size' = size + 1
                    /\ ret' = current_index
                    /\ held' = held \cup {new_handle}
                    /\ stale' = StaleAfterAcquire(current_index)
                    /\ run' = RunAfterAcquire(current_index)
                    /\ UNCHANGED freelist_enqueue_index
        /\ UNCHANGED <<config, follow, fresh, threads>>

(***************************************************************************)
(* Release                                                                 *)
(***************************************************************************)
\* variant: the stored word is not compared with the handle
ReleaseAccepts_NoCompare(handle) ==
    /\ capacity > ToNat(And(handle, capacity_mask))
    /\ And(handle, in_use_bit) # Zero32

\* variant: the in-use bit of the handle is not tested
ReleaseAccepts_NoInUse(handle) ==
    /\ capacity > ToNat(And(handle, capacity_mask))
    /\ ijha_h32_handle_info_at(ToNat(And(handle, capacity_mask))) = handle

\* stored_handle && *stored_handle == handle
ReleaseAccepts(handle) ==
    /\ capacity > ToNat(And(handle, capacity_mask))
    /\ And(handle, in_use_bit) # Zero32
    /\ ijha_h32_handle_info_at(ToNat(And(handle, capacity_mask))) = handle

\* variant: the old cursor is not stored as the link
ReleasedWordLifo_NoLink(handle, current_cursor) == And(Not32(in_use_bit), handle)

\* the word LIFO release leaves in the slot of handle
ReleasedWordLifo(handle, current_cursor) ==
    And(Not32(in_use_bit), Or(And(handle, Not32(capacity_mask)), current_cursor))

\* the word FIFO release leaves in the slot of the stored handle
ReleasedWordFifo(stored) == And(stored, Not32(in_use_bit))

\* variant: the released index is not linked behind the back of the queue
EnqueuedWordFifo_NoLink(tail, idx) == tail

\* the word FIFO release leaves in the slot at the back of the queue
EnqueuedWordFifo(tail, idx) == Or(And(tail, Not32(capacity_mask)), idx)

\* variant: the released slot links to itself and not to the old head
ReleasedWordTs_SelfLink(handle, old_freelist_index_serial) ==
    And(handle, Not32(in_use_bit))

\* variant: the in-use bit of the handle is stored with the link
ReleasedWordTs_InUse(handle, old_freelist_index_serial) ==
    Or(And(handle, Not32(capacity_mask)), And(old_freelist_index_serial, capacity_mask))

\* the word thread-safe release leaves in the slot of handle
ReleasedWordTs(handle, old_freelist_index_serial) ==
    Or(And(handle, Not32(Or(capacity_mask, in_use_bit))),
       And(old_freelist_index_serial, capacity_mask))

ReleaseRejected(handle) ==
    /\ ret' = IJHA_H32_INVALID_INDEX
    /\ stale' = StaleKept
    /\ run' = NoRun
    /\ UNCHANGED <<core, held, fresh>>

\* variant: the FIFO release pushes the slot on the front, as the LIFO release does
ijha_h32__release_fifo_AsLifo(handle) ==
    LET idx == And(handle, capacity_mask)
    IN  /\ release_func = "ijha_h32__release_fifo"
        /\ lastop' = "release"
        /\ arg' = handle
        /\ arg2' = Zero32
        /\ handle_out' = Zero32
        /\ IF ReleaseAccepts(handle)
           THEN /\ handles' = [handles EXCEPT ![ToNat(idx)] =
                                  ReleasedWordLifo(handle, freelist_dequeue_index)]
                /\ freelist_dequeue_index' = idx
                /\ size' = size - 1
                /\ ret' = idx
                /\ held' = held \ {handle}
                /\ stale' \in StaleAfterRelease(handle)
                /\ run' = RunAfterRelease(idx)
                /\ fresh' = FALSE
                /\ UNCHANGED freelist_enqueue_index
           ELSE ReleaseRejected(handle)
        /\ UNCHANGED <<config, follow, threads>>

ijha_h32__release_fifo(handle) ==
    LET idx == And(handle, capacity_mask)
    IN  /\ release_func = "ijha_h32__release_fifo"
        /\ lastop' = "release"
        /\ arg' = handle
        /\ arg2' = Zero32
        /\ handle_out' = Zero32
        /\ IF ReleaseAccepts(handle)
           THEN LET cleared == [handles EXCEPT ![ToNat(idx)] = ReleasedWordFifo(@)]
                    tail == ToNat(freelist_enqueue_index)
                IN  /\ handles' = [cleared EXCEPT ![tail] = EnqueuedWordFifo(@, idx)]
                    /\ freelist_enqueue_index' = idx
                    /\ size' = size - 1
                    /\ ret' = idx
                    /\ held' = held \ {handle}
                    /\ stale' \in StaleAfterRelease(handle)
                    /\ run' = RunAfterRelease(idx)
                    /\ fresh' = FALSE
                    /\ UNCHANGED freelist_dequeue_index
           ELSE ReleaseRejected(handle)
        /\ UNCHANGED <<config, follow, threads>>

\* variant: the LIFO release appends the slot at the back, as the FIFO release does
ijha_h32__release_lifo_AsFifo(handle) ==
    LET idx == And(handle, capacity_mask)
    IN  /\ release_func = "ijha_h32__release_lifo"
        /\ lastop' = "release"
        /\ arg' = handle
        /\ arg2' = Zero32
        /\ handle_out' = Zero32
        /\ IF ReleaseAccepts(handle)
           THEN LET cleared == [handles EXCEPT ![ToNat(idx)] = ReleasedWordFifo(@)]
                    tail == ToNat(freelist_enqueue_index)
                IN  /\ handles' = [cleared EXCEPT ![tail] = EnqueuedWordFifo(@, idx)]
                    /\ freelist_enqueue_index' = idx
                    /\ size' = size - 1
                    /\ ret' = idx
                    /\ held' = held \ {handle}
                    /\ stale' \in StaleAfterRelease(handle)
                    /\ run' = RunAfterRelease(idx)
                    /\ fresh' = FALSE
                    /\ UNCHANGED freelist_dequeue_index
           ELSE ReleaseRejected(handle)
        /\ UNCHANGED <<config, follow, threads>>

ijha_h32__release_lifo(handle) ==
    LET idx == And(handle, capacity_mask)
    IN  /\ release_func = "ijha_h32__release_lifo"
        /\ lastop' = "release"
        /\ arg' = handle
        /\ arg2' = Zero32
        /\ handle_out' = Zero32
        /\ IF ReleaseAccepts(handle)
           THEN LET current_cursor == freelist_dequeue_index
                IN  /\ handles' = [handles EXCEPT ![ToNat(idx)] =
                                       ReleasedWordLifo(handle, current_cursor)]
                    /\ freelist_dequeue_index' = idx
                    /\ size' = size - 1
                    /\ ret' = idx
                    /\ held' = held \ {handle}
                    /\ stale' \in StaleAfterRelease(handle)
                    /\ run' = RunAfterRelease(idx)
                    /\ fresh' = FALSE
                    /\ UNCHANGED freelist_enqueue_index
           ELSE ReleaseRejected(handle)
        /\ UNCHANGED <<config, follow, threads>>

\* one thread alone: the compare-and-swap of the first iteration succeeds
ijha_h32__release_lifo_ts(handle) ==
    LET idx == And(handle, capacity_mask)
    IN  /\ release_func = "ijha_h32__release_lifo_ts"
        /\ lastop' = "release"
        /\ arg' = handle
        /\ arg2' = Zero32
        /\ handle_out' = Zero32
        /\ IF ReleaseAccepts(handle)
           THEN LET old_freelist_index_serial == freelist_dequeue_index
                IN  /\ Serial < MaxSerial
                    /\ handles' = [handles EXCEPT ![ToNat(idx)] =
                                       ReleasedWordTs(handle, old_freelist_index_serial)]
                    /\ freelist_dequeue_index' =
                           NewIndexSerial(old_freelist_index_serial, idx)
                    /\ size' = size - 1
                    /\ ret' = idx
                    /\ held' = held \ {handle}
                    /\ stale' \in StaleAfterRelease(handle)
                    /\ run' = RunAfterRelease(idx)
                    /\ fresh' = FALSE
                    /\ UNCHANGED freelist_enqueue_index
           ELSE ReleaseRejected(handle)
        /\ UNCHANGED <<config, follow, threads>>

(***************************************************************************)
(* ijha_h32_userflags_set and ijha_h32_reset as calls                      *)
(***************************************************************************)
\* variant: the new userflags are set without clearing the old ones
UserflagsSetWord_OrOnly(ohandle, userflags) == Or(ohandle, userflags)

\* the word userflags_set leaves in the slot
UserflagsSetWord(ohandle, userflags) == Or(And(ohandle, Not32(userflags_mask)), userflags)

ijha_h32_userflags_set(handle, userflags) ==
    LET p == ToNat(And(handle, capacity_mask))
        ohandle == handles[p]
    IN  /\ And(userflags, userflags_mask) = userflags
        /\ ijha_h32_valid_mask(handle, Not32(userflags_mask))
        /\ handles' = [handles EXCEPT ![p] = UserflagsSetWord(ohandle, userflags)]
        /\ ret' = And(ohandle, userflags_mask)
        /\ lastop' = "userflags_set"
        /\ arg' = handle
        /\ arg2' = userflags
        /\ handle_out' = Zero32
        /\ held' = (held \ {ohandle}) \cup {UserflagsSetWord(ohandle, userflags)}
        /\ stale' = StaleKept
        /\ run' = NoRun
        /\ UNCHANGED <<size, freelist_enqueue_index, freelist_dequeue_index>>
        /\ UNCHANGED <<config, follow, fresh, threads>>

Reset ==
    LET r == ijha_h32_reset(capacity, generation_mask, flags_num_userflag_bits)
    IN  /\ handles' = r.handles
        /\ size' = r.size
        /\ freelist_enqueue_index' = r.freelist_enqueue_index
        /\ freelist_dequeue_index' = r.freelist_dequeue_index
        /\ lastop' = "reset"
        /\ arg' = Zero32
        /\ arg2' = Zero32
        /\ ret' = Zero32
        /\ handle_out' = Zero32
        /\ held' = {}
        /\ stale' = NoStale
        /\ run' = NoRun
        /\ fresh' = TRUE
        /\ UNCHANGED <<config, follow, threads>>

(***************************************************************************)
(* The thread-safe variant called by several threads.  Each access to      *)
(* freelist_dequeue_index, to a slot word or to size is one step of the    *)
(* thread; the statements in between are local.  A thread that is "idle"   *)
(* is in no call; an index that a call returns is read off the step that   *)
(* returns it, and loc[t].ret keeps IJHA_H32_INVALID_INDEX of a call that  *)
(* failed until the next call.                                             *)
(***************************************************************************)
\* the statements at which a thread has loaded freelist_dequeue_index and has not
\* yet tried its compare-and-swap
Loaded == {"acquire_read", "acquire_cas", "release_store", "release_cas"}

\* wrapped after a step; now: the step is a compare-and-swap that succeeds although
\* compare-and-swaps of other threads succeeded since the load
WrappedAfter(now) ==
    IF wrapped > 0 THEN (IF wrapped < MaxAfterWrap THEN wrapped + 1 ELSE wrapped)
    ELSE IF now THEN 1 ELSE 0

\* since, after a compare-and-swap of thread t has succeeded
SinceAfterCas(t) ==
    [u \in Threads |->
        IF u # t /\ pc[u] \in Loaded
        THEN (IF since[u] < MaxSince THEN since[u] + 1 ELSE MaxSince)
        ELSE 0]

\* what the sequential calls use is left alone
SequentialUnchanged == UNCHANGED <<config, call, ghost, freelist_enqueue_index>>

\* variant: the head is loaded before the loop and not again after a failed
\* compare-and-swap of acquire
LoadedWord_Stale(t) ==
    IF pc[t] = "acquire_load" THEN loc[t].old_freelist_index_serial
    ELSE freelist_dequeue_index

\* old_freelist_index_serial = *current_freelist_index_serial, in the loop
LoadedWord(t) == freelist_dequeue_index

\* old_freelist_index_serial = *current_freelist_index_serial, first or after a
\* failed compare-and-swap
acquire_lifo_ts_load(t, userflags) ==
    /\ acquire_func = "ijha_h32__acquire_lifo_ts"
    /\ And(userflags_mask, userflags) = userflags
    /\ \/ pc[t] = "idle"
       \/ pc[t] = "acquire_load" /\ userflags = loc[t].userflags
    /\ loc' = [loc EXCEPT ![t] =
                  [NoLocals EXCEPT !.userflags = userflags,
                                   !.old_freelist_index_serial = LoadedWord(t)]]
    /\ pc' = [pc EXCEPT ![t] = "acquire_read"]
    /\ since' = [since EXCEPT ![t] = 0]
    /\ wrapped' = WrappedAfter(FALSE)
    /\ UNCHANGED <<handles, size, freelist_dequeue_index, owned>>
    /\ SequentialUnchanged

\* variant: the first slot is handed out like any other
EndOfList_Never(current_index) == FALSE

\* if (current_index == 0): the first slot is the sentinel/end-of-list
EndOfList(current_index) == current_index = Zero32

\* current_handle = *handle, and the return when the index is the sentinel 0
acquire_lifo_ts_read(t) ==
    LET current_index == And(loc[t].old_freelist_index_serial, capacity_mask)
    IN  /\ pc[t] = "acquire_read"
        /\ ToNat(current_index) \in DOMAIN handles
        /\ IF EndOfList(current_index)
           THEN /\ pc' = [pc EXCEPT ![t] = "idle"]
                /\ loc' = [loc EXCEPT ![t] =
                              [NoLocals EXCEPT !.ret = IJHA_H32_INVALID_INDEX,
                                               !.handle_out = Zero32]]
                /\ since' = [since EXCEPT ![t] = 0]
           ELSE /\ pc' = [pc EXCEPT ![t] = "acquire_cas"]
                /\ loc' = [loc EXCEPT ![t].current_handle =
                              ijha_h32_handle_info_at(ToNat(current_index))]
                /\ UNCHANGED since
        /\ wrapped' = WrappedAfter(FALSE)
        /\ UNCHANGED <<handles, size, freelist_dequeue_index, owned>>
        /\ SequentialUnchanged

\* variant: the increment counts twice
IJHA_H32_InterlockedIncrement_Twice(value) == value + 2

\* __sync_add_and_fetch(ptr, 1) / _InterlockedIncrement on self->size
IJHA_H32_InterlockedIncrement(value) == value + 1

\* variant: the decrement is lost
IJHA_H32_InterlockedDecrement_Lost(value) == value

\* __sync_sub_and_fetch(ptr, 1) / _InterlockedDecrement on self->size
IJHA_H32_InterlockedDecrement(value) == value - 1

\* variant: the compare-and-swap compares the index and not the serial
CasSucceeds_IndexOnly(old_freelist_index_serial) ==
    And(freelist_dequeue_index, capacity_mask)
        = And(old_freelist_index_serial, capacity_mask)

\* variant: the compare-and-swap never finds the old value
CasSucceeds_Never(old_freelist_index_serial) == FALSE

\* IJHA_H32_CAS(current_freelist_index_serial, new, old) finds the old value
CasSucceeds(old_freelist_index_serial) ==
    freelist_dequeue_index = old_freelist_index_serial

\* IJHA_H32_CAS of acquire
acquire_lifo_ts_cas(t) ==
    LET old_freelist_index_serial == loc[t].old_freelist_index_serial
        next_freelist_index == And(loc[t].current_handle, capacity_mask)
    IN  /\ pc[t] = "acquire_cas"
        /\ IF CasSucceeds(old_freelist_index_serial)
           THEN /\ Serial < MaxSerial
                /\ freelist_dequeue_index' =
                       NewIndexSerial(old_freelist_index_serial, next_freelist_index)
                /\ pc' = [pc EXCEPT ![t] = "acquire_store"]
                /\ since' = SinceAfterCas(t)
                /\ wrapped' = WrappedAfter(since[t] > 0)
           ELSE /\ pc' = [pc EXCEPT ![t] = "acquire_load"]
                /\ wrapped' = WrappedAfter(FALSE)
                /\ UNCHANGED <<freelist_dequeue_index, since>>
        /\ UNCHANGED <<handles, size, loc, owned>>
        /\ SequentialUnchanged

\* *handle = *handle_out = new_handle
acquire_lifo_ts_store(t) ==
    LET current_index == And(loc[t].old_freelist_index_serial, capacity_mask)
        new_handle == NewHandle(loc[t].userflags, loc[t].current_handle, current_index)
    IN  /\ pc[t] = "acquire_store"
        /\ handles' = [handles EXCEPT ![ToNat(current_index)] = new_handle]
        /\ loc' = [loc EXCEPT ![t].handle_out = new_handle]
        /\ pc' = [pc EXCEPT ![t] = "acquire_increment"]
        /\ wrapped' = WrappedAfter(FALSE)
        /\ UNCHANGED <<size, freelist_dequeue_index, owned, since>>
        /\ SequentialUnchanged

\* IJHA_H32_InterlockedIncrement(&self->size); return current_index
acquire_lifo_ts_increment(t) ==
    LET current_index == And(loc[t].old_freelist_index_serial, capacity_mask)
    IN  /\ pc[t] = "acquire_increment"
        /\ size' = IJHA_H32_InterlockedIncrement(size)
        /\ owned' = [owned EXCEPT ![t] = @ \cup {loc[t].handle_out}]
        /\ loc' = [loc EXCEPT ![t] = NoLocals]
        /\ pc' = [pc EXCEPT ![t] = "idle"]
        /\ wrapped' = WrappedAfter(FALSE)
        /\ UNCHANGED <<handles, freelist_dequeue_index, since>>
        /\ SequentialUnchanged

\* stored_handle && *stored_handle == handle, for a handle the thread holds
release_lifo_ts_check(t, handle) ==
    /\ release_func = "ijha_h32__release_lifo_ts"
    /\ pc[t] = "idle"
    /\ handle \in owned[t]
    /\ owned' = [owned EXCEPT ![t] = @ \ {handle}]
    /\ IF ReleaseAccepts(handle)
       THEN /\ pc' = [pc EXCEPT ![t] = "release_load"]
            /\ loc' = [loc EXCEPT ![t] = [NoLocals EXCEPT !.handle = handle]]
       ELSE /\ loc' = [loc EXCEPT ![t] =
                          [NoLocals EXCEPT !.ret = IJHA_H32_INVALID_INDEX]]
            /\ UNCHANGED pc
    /\ wrapped' = WrappedAfter(FALSE)
    /\ UNCHANGED <<handles, size, freelist_dequeue_index, since>>
    /\ SequentialUnchanged

\* old_freelist_index_serial = *current_freelist_index_serial
release_lifo_ts_load(t) ==
    /\ pc[t] = "release_load"
    /\ loc' = [loc EXCEPT ![t].old_freelist_index_serial = LoadedWord(t)]
    /\ pc' = [pc EXCEPT ![t] = "release_store"]
    /\ since' = [since EXCEPT ![t] = 0]
    /\ wrapped' = WrappedAfter(FALSE)
    /\ UNCHANGED <<handles, size, freelist_dequeue_index, owned>>
    /\ SequentialUnchanged

\* *stored_handle = handle | (old_freelist_index_serial & capacity_mask)
release_lifo_ts_store(t) ==
    LET idx == And(loc[t].handle, capacity_mask)
    IN  /\ pc[t] = "release_store"
        /\ handles' = [handles EXCEPT ![ToNat(idx)] =
                           ReleasedWordTs(loc[t].handle, loc[t].old_freelist_index_serial)]
        /\ pc' = [pc EXCEPT ![t] = "release_cas"]
        /\ wrapped' = WrappedAfter(FALSE)
        /\ UNCHANGED <<size, freelist_dequeue_index, loc, owned, since>>
        /\ SequentialUnchanged

\* IJHA_H32_CAS of release
release_lifo_ts_cas(t) ==
    LET old_freelist_index_serial == loc[t].old_freelist_index_serial
        idx == And(loc[t].handle, capacity_mask)
    IN  /\ pc[t] = "release_cas"
        /\ IF CasSucceeds(old_freelist_index_serial)
           THEN /\ Serial < MaxSerial
                /\ freelist_dequeue_index' = NewIndexSerial(old_freelist_index_serial, idx)
                /\ pc' = [pc EXCEPT ![t] = "release_decrement"]
                /\ since' = SinceAfterCas(t)
                /\ wrapped' = WrappedAfter(since[t] > 0)
           ELSE /\ pc' = [pc EXCEPT ![t] = "release_load"]
                /\ wrapped' = WrappedAfter(FALSE)
                /\ UNCHANGED <<freelist_dequeue_index, since>>
        /\ UNCHANGED <<handles, size, loc, owned>>
        /\ SequentialUnchanged

\* IJHA_H32_InterlockedDecrement(&self->size); return idx
\* (size is kept as the long the intrinsics work on: 0 - 1 is -1)
release_lifo_ts_decrement(t) ==
    /\ pc[t] = "release_decrement"
    /\ size' = IJHA_H32_InterlockedDecrement(size)
    /\ loc' = [loc EXCEPT ![t] = NoLocals]
    /\ pc' = [pc EXCEPT ![t] = "idle"]
    /\ wrapped' = WrappedAfter(FALSE)
    /\ UNCHANGED <<handles, freelist_dequeue_index, owned, since>>
    /\ SequentialUnchanged

(***************************************************************************)
(* The configurations and the arguments that are explored.                 *)
(***************************************************************************)
\* LIFO, FIFO and thread-safe LIFO, each with both places of the in-use bit
InitFlags ==
    {Or(p, l) : p \in {IJHA_H32_INIT_LIFO, IJHA_H32_INIT_FIFO,
                       Or(IJHA_H32_INIT_THREADSAFE, IJHA_H32_INIT_LIFO)},
                l \in {Zero32, IJHA_H32_INIT_DONT_USE_MSB_AS_IN_USE_BIT}}

\* the number of userflag bits that leaves g generation bits to n handles
UserflagBitsFor(n, g) == 31 - ijha_h32__num_bits(ijha_h32__roundup(ToWord(n))) - g

\* <<max_num_handles, generation bits>>: the smallest pool with every number of
\* generation bits, and every pool without generation bits
PoolShapes == {<<2, g>> : g \in 0..MaxGenBits} \cup {<<n, 0>> : n \in 2..MaxHandles}

\* ijha_h32_init_no_inlinehandles without userdata
Configurations ==
    {ijha_h32_initex(p[1], UserflagBitsFor(p[1], p[2]), 4, 0, 0, f) :
        p \in PoolShapes, f \in InitFlags}

\* the userflags that are passed
UserflagValues == {Zero32, userflags_mask}

Slots == 0..(capacity - 1)

LiveHandles == {handles[i] : i \in {j \in Slots : And(handles[j], in_use_bit) # Zero32}}

\* the handle that was released last from each free slot that was acquired before
ReleasedHandles ==
    {Or(And(handles[i], Not32(capacity_mask)), Or(ToWord(i), in_use_bit)) :
        i \in {j \in Slots : And(handles[j], in_use_bit) = Zero32}}

\* handles that are not valid: in-use bit clear, index out of range,
\* another generation, other userflags
BrokenHandles ==
    {And(h, Not32(in_use_bit)) : h \in LiveHandles}
    \cup {Or(h, capacity_mask) : h \in LiveHandles}
    \cup {Or(And(h, Not32(generation_mask)), NewGeneration(h)) : h \in LiveHandles}
    \cup {Or(And(h, Not32(userflags_mask)), And(Not32(h), userflags_mask)) :
             h \in LiveHandles}

\* the words of the free slots
FreeWords == {handles[i] : i \in {j \in Slots : And(handles[j], in_use_bit) = Zero32}}

\* the handles that are passed to release
ReleaseHandles ==
    LiveHandles \cup ReleasedHandles \cup BrokenHandles \cup FreeWords
    \cup (IF stale.on THEN {stale.h} ELSE {})

\* the handles that are passed to userflags_set
UserflagsSetHandles ==
    LiveHandles
    \cup {Or(And(h, Not32(userflags_mask)), And(Not32(h), userflags_mask)) :
             h \in LiveHandles}

(***************************************************************************)
(* The allocator used by one thread.                                       *)
(***************************************************************************)
InitFrom(configurations, following) ==
    \E c \in configurations :
        LET r == ijha_h32_reset(c.capacity, c.generation_mask, c.flags_num_userflag_bits)
        IN  /\ c.init_res = IJHA_H32_INIT_NO_ERROR
            /\ acquire_func = c.acquire_func
            /\ release_func = c.release_func
            /\ flags_num_userflag_bits = c.flags_num_userflag_bits
            /\ handles_stride_userdata_offset = c.handles_stride_userdata_offset
            /\ capacity = c.capacity
            /\ capacity_mask = c.capacity_mask
            /\ generation_mask = c.generation_mask
            /\ userflags_mask = c.userflags_mask
            /\ in_use_bit = c.in_use_bit
            /\ handles = r.handles
            /\ size = r.size
            /\ freelist_enqueue_index = r.freelist_enqueue_index
            /\ freelist_dequeue_index = r.freelist_dequeue_index
            /\ lastop = "init"
            /\ arg = Zero32
            /\ arg2 = Zero32
            /\ ret = Zero32
            /\ handle_out = Zero32
            /\ held = {}
            /\ follow = following
            /\ stale = NoStale
            /\ run = NoRun
            /\ fresh = TRUE
            /\ pc = [t \in Threads |-> "idle"]
            /\ loc = [t \in Threads |-> NoLocals]
            /\ owned = [t \in Threads |-> {}]
            /\ since = [t \in Threads |-> 0]
            /\ wrapped = 0

InitWith(following) == InitFrom(Configurations, following)

Init == InitWith(FALSE)

InitStale == InitWith(TRUE)

AcquireLifoFifo == \E uf \in UserflagValues : ijha_h32__acquire_userflags_lifo_fifo(uf)
AcquireLifoTs == \E uf \in UserflagValues : ijha_h32__acquire_lifo_ts(uf)
ReleaseFifo == \E h \in ReleaseHandles : ijha_h32__release_fifo(h)
ReleaseLifo == \E h \in ReleaseHandles : ijha_h32__release_lifo(h)
ReleaseLifoTs == \E h \in ReleaseHandles : ijha_h32__release_lifo_ts(h)
UserflagsSet ==
    \E h \in UserflagsSetHandles, uf \in UserflagValues : ijha_h32_userflags_set(h, uf)

Next ==
    \/ AcquireLifoFifo
    \/ AcquireLifoTs
    \/ ReleaseFifo
    \/ ReleaseLifo
    \/ ReleaseLifoTs
    \/ UserflagsSet
    \/ Reset

Spec == Init /\ [][Next]_vars

\* the same calls, with a released handle followed
SpecStale == InitStale /\ [][Next]_vars

\* ijha_h32_initex with neither IJHA_H32_INIT_LIFO nor IJHA_H32_INIT_FIFO
NoPolicyConfigurations ==
    {ijha_h32_initex(p[1], UserflagBitsFor(p[1], p[2]), 4, 0, 0, Zero32) : p \in PoolShapes}

\* the same calls on an allocator initialised without a policy flag
SpecNoPolicy == InitFrom(NoPolicyConfigurations, FALSE) /\ [][Next]_vars

(***************************************************************************)
(* The thread-safe allocator used by NumThreads threads.                   *)
(***************************************************************************)
\* the largest pool: 2^30 handles leave two bits to the serial
BigPool == Pow2(30)

\* <<max_num_handles, generation bits>> of the pools the threads share
TsPoolShapes == {<<2, 1>>, <<3, 0>>, <<BigPool, 0>>}

TsConfigurations ==
    {ijha_h32_initex(p[1], UserflagBitsFor(p[1], p[2]), 4, 0, 0,
                     Or(IJHA_H32_INIT_THREADSAFE, IJHA_H32_INIT_LIFO)) : p \in TsPoolShapes}

\* the userflags the threads pass
TsUserflagValues == {Zero32}

InitTs == InitFrom(TsConfigurations, FALSE)

\* a compare-and-swap succeeded although others succeeded since the load
Wrapped == wrapped > 0

\* behaviours are followed for MaxAfterWrap steps once the serial has wrapped
Followed == wrapped < MaxAfterWrap

AcquireLoadTs ==
    \E t \in Threads, uf \in TsUserflagValues : Followed /\ acquire_lifo_ts_load(t, uf)
AcquireReadTs == \E t \in Threads : Followed /\ acquire_lifo_ts_read(t)
AcquireCasTs == \E t \in Threads : Followed /\ acquire_lifo_ts_cas(t)
AcquireStoreTs == \E t \in Threads : Followed /\ acquire_lifo_ts_store(t)
AcquireIncrementTs == \E t \in Threads : Followed /\ acquire_lifo_ts_increment(t)
ReleaseCheckTs ==
    \E t \in Threads : \E h \in owned[t] : Followed /\ release_lifo_ts_check(t, h)
ReleaseLoadTs == \E t \in Threads : Followed /\ release_lifo_ts_load(t)
ReleaseStoreTs == \E t \in Threads : Followed /\ release_lifo_ts_store(t)
ReleaseCasTs == \E t \in Threads : Followed /\ release_lifo_ts_cas(t)
ReleaseDecrementTs == \E t \in Threads : Followed /\ release_lifo_ts_decrement(t)

NextTs ==
    \/ AcquireLoadTs
    \/ AcquireReadTs
    \/ AcquireCasTs
    \/ AcquireStoreTs
    \/ AcquireIncrementTs
    \/ ReleaseCheckTs
    \/ ReleaseLoadTs
    \/ ReleaseStoreTs
    \/ ReleaseCasTs
    \/ ReleaseDecrementTs

SpecTs == InitTs /\ [][NextTs]_vars

(***************************************************************************)
(* The thread-safe allocator when a handle is released by two threads: a   *)
(* thread also calls release with a handle that another thread holds or is *)
(* inside release with.                                                    *)
(***************************************************************************)
\* a thread between the check of release and its return
ReleasePcs == {"release_load", "release_store", "release_cas", "release_decrement"}

\* the handles thread t can pass that are another thread's
SharedHandles(t) ==
    UNION {owned[u] \cup (IF pc[u] \in ReleasePcs THEN {loc[u].handle} ELSE {}) :
               u \in Threads \ {t}}

\* stored_handle && *stored_handle == handle, for a handle the thread does not hold
release_lifo_ts_check_shared(t, handle) ==
    /\ release_func = "ijha_h32__release_lifo_ts"
    /\ pc[t] = "idle"
    /\ handle \notin owned[t]
    /\ IF ReleaseAccepts(handle)
       THEN /\ pc' = [pc EXCEPT ![t] = "release_load"]
            /\ loc' = [loc EXCEPT ![t] = [NoLocals EXCEPT !.handle = handle]]
       ELSE /\ loc' = [loc EXCEPT ![t] =
                          [NoLocals EXCEPT !.ret = IJHA_H32_INVALID_INDEX]]
            /\ UNCHANGED pc
    /\ wrapped' = WrappedAfter(FALSE)
    /\ UNCHANGED <<handles, size, freelist_dequeue_index, owned, since>>
    /\ SequentialUnchanged

\* <<max_num_handles, generation bits>> of the pools of these behaviours
TsSharedPoolShapes == {<<2, 1>>}

InitTsShared ==
    InitFrom({c \in TsConfigurations :
                  \E p \in TsSharedPoolShapes :
                      c = ijha_h32_initex(p[1], UserflagBitsFor(p[1], p[2]), 4, 0, 0,
                                          Or(IJHA_H32_INIT_THREADSAFE,
                                             IJHA_H32_INIT_LIFO))}, FALSE)

ReleaseCheckSharedTs ==
    \E t \in Threads : \E h \in SharedHandles(t) :
        Followed /\ release_lifo_ts_check_shared(t, h)

NextTsShared ==
    \/ NextTs
    \/ ReleaseCheckSharedTs

SpecTsShared == InitTsShared /\ [][NextTsShared]_vars

(***************************************************************************)
(* The threads under a fair scheduler. The serial has to come round for    *)
(* the behaviours to be finitely many, so the pool is the one of 2^30      *)
(* handles, and the callers ask for no more slots than are followed: a     *)
(* thread holds up to MaxHeld handles, and calls are started for           *)
(* MaxAfterWrap steps once the serial has wrapped. A thread inside acquire *)
(* or release is not suspended for ever; whether and when it calls is up   *)
(* to it.                                                                  *)
(***************************************************************************)
InitTsLive == InitFrom({c \in TsConfigurations : c.capacity = BigPool}, FALSE)

AcquirePcs == {"acquire_load", "acquire_read", "acquire_cas", "acquire_store", "acquire_increment"}

\* the slots the callers hold, are about to get or are giving back
Wanted ==
    Cardinality({<<t, h>> \in Threads \X UNION {owned[u] : u \in Threads} : h \in owned[t]})
        + Cardinality({t \in Threads : pc[t] # "idle"})

\* thread t may call acquire
MayAcquire(t) ==
    pc[t] = "idle" =>
        /\ Followed
        /\ Cardinality(owned[t]) < MaxHeld
        /\ Wanted < SlotsFollowed(capacity) - 1
        /\ size < SlotsFollowed(capacity) - 1

AcquireLoadLive ==
    \E t \in Threads, uf \in TsUserflagValues : MayAcquire(t) /\ acquire_lifo_ts_load(t, uf)
AcquireReadLive == \E t \in Threads : pc[t] # "idle" /\ acquire_lifo_ts_read(t)
AcquireCasLive == \E t \in Threads : pc[t] # "idle" /\ acquire_lifo_ts_cas(t)
AcquireStoreLive == \E t \in Threads : pc[t] # "idle" /\ acquire_lifo_ts_store(t)
AcquireIncrementLive == \E t \in Threads : pc[t] # "idle" /\ acquire_lifo_ts_increment(t)
ReleaseCheckLive ==
    \E t \in Threads : \E h \in owned[t] : Followed /\ release_lifo_ts_check(t, h)
ReleaseLoadLive == \E t \in Threads : pc[t] # "idle" /\ release_lifo_ts_load(t)
ReleaseStoreLive == \E t \in Threads : pc[t] # "idle" /\ release_lifo_ts_store(t)
ReleaseCasLive == \E t \in Threads : pc[t] # "idle" /\ release_lifo_ts_cas(t)
ReleaseDecrementLive == \E t \in Threads : pc[t] # "idle" /\ release_lifo_ts_decrement(t)

NextTsLive ==
    \/ AcquireLoadLive
    \/ AcquireReadLive
    \/ AcquireCasLive
    \/ AcquireStoreLive
    \/ AcquireIncrementLive
    \/ ReleaseCheckLive
    \/ ReleaseLoadLive
    \/ ReleaseStoreLive
    \/ ReleaseCasLive
    \/ ReleaseDecrementLive

\* the next step of thread t inside acquire or release
Continue(t) ==
    /\ pc[t] # "idle"
    /\ \/ \E uf \in TsUserflagValues : acquire_lifo_ts_load(t, uf)
       \/ acquire_lifo_ts_read(t)
       \/ acquire_lifo_ts_cas(t)
       \/ acquire_lifo_ts_store(t)
       \/ acquire_lifo_ts_increment(t)
       \/ release_lifo_ts_load(t)
       \/ release_lifo_ts_store(t)
       \/ release_lifo_ts_cas(t)
       \/ release_lifo_ts_decrement(t)

FairTs == \A t \in Threads : WF_vars(Continue(t))

SpecTsLive == InitTsLive /\ [][NextTsLive]_vars /\ FairTs

(***************************************************************************)
(* ijha_h32_initex called on a struct and a memory area that hold whatever *)
(* was there before: every byte 0x00 or every byte 0xff.  The arguments    *)
(* are drawn before the call and kept in arg; ret is the value returned.   *)
(***************************************************************************)
\* the most userflag bits that can be asked for: flags_num_userflag_bits & 31
MaxUserflagBits == 31

\* what the memory holds before the call
Fills == {Zero32, AllOnes32}

\* max_num_handles: the small pools, and pools that round up to 2^16, 2^30 and 2^31
InitexHandles == (1..(MaxHandles + 2)) \cup {Pow2(16), BigPool, BigPool + 1}

\* <<non_inline_handle_size_bytes, handle_offset, userdata_size_in_bytes_per_item>>:
\* no inline handles with and without userdata, inline handles, the largest
\* and the first too large value of each, and sizes whose sum passes 0xffff
InitexSizes ==
    {<<4, 0, 0>>, <<4, 0, 8>>, <<0, 0, 8>>, <<0, 4, 8>>, <<255, 255, 65280>>,
     <<256, 0, 0>>, <<0, 256, 8>>, <<0, 0, 65536>>, <<4, 0, 65535>>, <<255, 4, 65535>>}

\* ijha_flags: the supported ones, none, both of LIFO and FIFO, thread-safe
\* without LIFO, thread-safe FIFO, and flags with low bits set
InitexFlags ==
    InitFlags
    \cup {Zero32, IJHA_H32_INIT_LIFOFIFO_MASK, IJHA_H32_INIT_THREADSAFE,
          Or(IJHA_H32_INIT_THREADSAFE, IJHA_H32_INIT_FIFO),
          Or(IJHA_H32_INIT_THREADSAFE, IJHA_H32_INIT_LIFOFIFO_MASK),
          Or(IJHA_H32_INIT_LIFO, One32), Or(IJHA_H32_INIT_FIFO, {4}),
          Or(Or(IJHA_H32_INIT_THREADSAFE, IJHA_H32_INIT_FIFO), {2})}

InitexArguments ==
    {[max_num_handles |-> n, num_userflag_bits |-> k,
      non_inline_handle_size_bytes |-> z[1], handle_offset |-> z[2],
      userdata_size_in_bytes_per_item |-> z[3], ijha_flags |-> f] :
        n \in InitexHandles, k \in 0..MaxUserflagBits, z \in InitexSizes, f \in InitexFlags}

\* before the call: nothing is initialised
InitInitex ==
    \E fill \in Fills, a \in InitexArguments :
        /\ acquire_func = "null"
        /\ release_func = "null"
        /\ flags_num_userflag_bits = fill
        /\ handles_stride_userdata_offset = fill
        /\ capacity = Cardinality(fill)
        /\ capacity_mask = fill
        /\ generation_mask = fill
        /\ userflags_mask = fill
        /\ in_use_bit = fill
        /\ handles = [i \in 0..(SlotsFollowed(a.max_num_handles) - 1) |-> fill]
        /\ size = Cardinality(fill)
        /\ freelist_enqueue_index = fill
        /\ freelist_dequeue_index = fill
        /\ lastop = "none"
        /\ arg = a
        /\ arg2 = Zero32
        /\ ret = Zero32
        /\ handle_out = Zero32
        /\ held = {}
        /\ follow = FALSE
        /\ stale = NoStale
        /\ run = NoRun
        /\ fresh = TRUE
        /\ pc = [t \in Threads |-> "idle"]
        /\ loc = [t \in Threads |-> NoLocals]
        /\ owned = [t \in Threads |-> {}]
        /\ since = [t \in Threads |-> 0]
        /\ wrapped = 0

\* variant: ijha_h32_reset is called whatever init_res is
ResetPerformed_Always(init_res) == TRUE

\* if (init_res == IJHA_H32_INIT_NO_ERROR) ijha_h32_reset(self)
ResetPerformed(init_res) == init_res = IJHA_H32_INIT_NO_ERROR

\* the call ijha_h32_initex(self, arg..., memory)
Initex ==
    /\ lastop = "none"
    /\ \E c \in {ijha_h32_initex(arg.max_num_handles, arg.num_userflag_bits,
                                  arg.non_inline_handle_size_bytes, arg.handle_offset,
                                  arg.userdata_size_in_bytes_per_item, arg.ijha_flags)} :
       LET r == ijha_h32_reset(c.capacity, c.generation_mask, c.flags_num_userflag_bits)
           ok == ResetPerformed(c.init_res)
       IN  /\ acquire_func' = c.acquire_func
           /\ release_func' = c.release_func
           /\ flags_num_userflag_bits' = c.flags_num_userflag_bits
           /\ handles_stride_userdata_offset' = c.handles_stride_userdata_offset
           /\ capacity' = c.capacity
           /\ capacity_mask' = c.capacity_mask
           /\ generation_mask' = c.generation_mask
           /\ userflags_mask' = c.userflags_mask
           /\ in_use_bit' = c.in_use_bit
           /\ handles' = IF ok THEN r.handles ELSE handles
           /\ size' = 0
           /\ freelist_enqueue_index' = IF ok THEN r.freelist_enqueue_index
                                        ELSE freelist_enqueue_index
           /\ freelist_dequeue_index' = IF ok THEN r.freelist_dequeue_index
                                        ELSE freelist_dequeue_index
           /\ lastop' = "initex"
           /\ ret' = c.init_res
           /\ UNCHANGED <<arg, arg2, handle_out, ghost, threads>>

NextInitex == Initex

SpecInitex == InitInitex /\ [][NextInitex]_vars

(***************************************************************************)
(* ijha_fifo_h32 and, built on it, ijha_fifo_ds_h32i32.                    *)
(* handles[i] is the struct ijha_fifo_ds_h32i32_indexhandle at index i:    *)
(* handle and next_index (its handle_alloc_index), dense_index and         *)
(* sparse_index.  self->num_handles is kept in size.  The fields struct    *)
(* ijha_fifo_h32 does not have are left zero.                              *)
(*   pc:    "idle" between calls, "assert" where an assertion stopped the  *)
(*          program, "undefined" after a write outside the memory area;    *)
(*          no call is followed from the latter two.                       *)
(*   loc:   *move_from_index and *move_to_index of the caller, and the     *)
(*          record indices the last release read or wrote.                 *)
(*   owned: the caller's packed array, as the test keeps test_objects:     *)
(*          the handle is stored at the dense index acquire returns, and   *)
(*          owned[move_to] = owned[move_from] follows every release.       *)
(*   run:   the successive acquires made since the initialisation (acq:    *)
(*          handle and value returned, of the first MaxDsLive) and the     *)
(*          release of a valid handle that directly follows them (rel);    *)
(*          any other acquire or release ends it.                          *)
(* ijha_fifo_h32__roundup and ijha_fifo_h32__num_bits are the code of      *)
(* ijha_h32__roundup and ijha_h32__num_bits.                               *)
(*   since: the calls made, counted in the pools of more than two records, *)
(*          which are followed for MaxDsCalls calls.                       *)
(***************************************************************************)
IJHA_FIFO_H32_INVALID_INDEX == AllOnes32
IJHA_FIFO_H32_NEXT_INDEX_FREE_BIT == {31}
IJHA_FIFO_H32_NEXT_INDEX_USED_MASK == 0..30

ijha_fifo_h32_handle_stride(v) == And(v, 0..23)
ijha_fifo_h32_userdata_offset(v) == Shr32(And(v, 24..31), 24)

\* sizeof(struct ijha_fifo_ds_h32i32_indexhandle): four unsigned
SizeofDsIndexhandle == 16

num_handles == size

\* whether index is the index of a record of the memory area
InMemory(index) == index \subseteq capacity_mask

\* ~(self->capacity_mask|self->generation_mask)
FifoUserflagsMask == Not32(Or(capacity_mask, generation_mask))

\* the fields ijha_fifo_h32_reset stores; dense_index and sparse_index stay
ijha_fifo_h32_reset(cmask, memory) ==
    [ num_handles |-> 0,
      freelist_dequeue_index |-> Zero32,
      freelist_enqueue_index |-> cmask,
      handles |-> [i \in 0..ToNat(cmask) |->
                      [memory[i] EXCEPT
                          !.handle = ToWord(i),
                          !.next_index =
                              IF i = ToNat(cmask) THEN IJHA_FIFO_H32_NEXT_INDEX_FREE_BIT
                              ELSE Or(ToWord(i + 1), IJHA_FIFO_H32_NEXT_INDEX_FREE_BIT)]] ]

\* the fields ijha_fifo_h32_init_stride stores before it calls ijha_fifo_h32_reset,
\* and whether its assertions hold
ijha_fifo_h32_init_stride(max_num_handles, num_userflag_bits, userdata_size_in_bytes_per_item, indexhandle_size) ==
    LET rounded == ijha_h32__roundup(ToWord(max_num_handles))
        handles_stride == indexhandle_size + userdata_size_in_bytes_per_item
        userflags == IF num_userflag_bits # 0
                     THEN Shl32(AllOnes32, 32 - num_userflag_bits) ELSE Zero32
        cmask == Dec32(rounded)
    IN  [ asserts |-> /\ rounded # Zero32
                      /\ And(rounded, Dec32(rounded)) = Zero32
                      /\ (ijha_h32__num_bits(rounded) - 1) + num_userflag_bits < 32
                      /\ handles_stride < Pow2(24)
                      /\ indexhandle_size < Pow2(8),
          capacity_mask |-> cmask,
          generation_mask |-> Not32(Or(cmask, userflags)),
          handles_stride_userdata_offset |->
              Or(ToWord(handles_stride), Shl32(ToWord(indexhandle_size), 24)) ]

\* ijha_fifo_ds_h32i32_init: ijha_fifo_h32_init_stride with the size of the
\* dense/sparse record
ijha_fifo_ds_h32i32_init(max_num_handles, num_userflag_bits, userdata_size_in_bytes_per_item) ==
    ijha_fifo_h32_init_stride(max_num_handles, num_userflag_bits,
                              userdata_size_in_bytes_per_item, SizeofDsIndexhandle)

ijha_fifo_h32_valid(handle) ==
    LET stored == handles[ToNat(And(handle, capacity_mask))]
    IN  /\ stored.handle = handle
        /\ And(stored.next_index, IJHA_FIFO_H32_NEXT_INDEX_FREE_BIT) = Zero32

\* variant: the generation is increased by two
FifoNewHandle_AddTwice(index_handle, userflags) ==
    LET generation_to_add == Shl32(Inc32(capacity_mask), 1)
        next_to_last_generation_mask == And(Shl32(generation_mask, 1), generation_mask)
        current_generation == And(index_handle, generation_mask)
    IN  IF next_to_last_generation_mask # Zero32
        THEN Or(Or(And(index_handle, capacity_mask),
                   IF current_generation = next_to_last_generation_mask
                   THEN generation_to_add
                   ELSE And(generation_mask, Add32(index_handle, generation_to_add))),
                userflags)
        ELSE IF generation_mask # Zero32
        THEN Or(Or(And(index_handle, capacity_mask),
                   And(generation_mask, Add32(index_handle, generation_to_add))),
                userflags)
        ELSE Or(And(Not32(FifoUserflagsMask), index_handle), userflags)

\* variant: the generation is increased and nothing is skipped
FifoNewHandle_NoSkip(index_handle, userflags) ==
    Or(Or(And(index_handle, capacity_mask),
          And(generation_mask, Add32(index_handle, Inc32(capacity_mask)))),
       userflags)

\* index->handle as ijha_fifo_h32_acquire_mask stores it
FifoNewHandle(index_handle, userflags) ==
    LET generation_to_add == Inc32(capacity_mask)
        next_to_last_generation_mask == And(Shl32(generation_mask, 1), generation_mask)
        current_generation == And(index_handle, generation_mask)
    IN  IF next_to_last_generation_mask # Zero32
        THEN Or(Or(And(index_handle, capacity_mask),
                   IF current_generation = next_to_last_generation_mask
                   THEN generation_to_add
                   ELSE And(generation_mask, Add32(index_handle, generation_to_add))),
                userflags)
        ELSE IF generation_mask # Zero32
        THEN Or(Or(And(index_handle, capacity_mask),
                   And(generation_mask, Add32(index_handle, generation_to_add))),
                userflags)
        ELSE Or(And(Not32(FifoUserflagsMask), index_handle), userflags)

\* the assertions on the generation of index->handle: non zero, not full
\* generation, has changed generation
FifoGenerationAsserts(index_handle, new_handle) ==
    IF And(Shl32(generation_mask, 1), generation_mask) # Zero32
    THEN /\ And(new_handle, generation_mask) # Zero32
         /\ And(new_handle, generation_mask) # generation_mask
         /\ And(new_handle, generation_mask) # And(index_handle, generation_mask)
    ELSE IF generation_mask # Zero32
    THEN And(new_handle, generation_mask) # And(index_handle, generation_mask)
    ELSE TRUE

\* variant: the pool is full when every record is used
FifoFull_AllRecords == num_handles = ToNat(capacity_mask) + 1

\* self->num_handles == self->capacity_mask
FifoFull == num_handles = ToNat(capacity_mask)

\* what ijha_fifo_h32_acquire_mask stores and returns
ijha_fifo_h32_acquire_mask(userflags) ==
    IF FifoFull
    THEN [ handles |-> handles,
           num_handles |-> num_handles,
           freelist_dequeue_index |-> freelist_dequeue_index,
           asserts |-> TRUE,
           handle_out |-> Zero32,
           ret |-> IJHA_FIFO_H32_INVALID_INDEX ]
    ELSE LET at == ToNat(freelist_dequeue_index)
             index == handles[at]
             next_index == And(index.next_index, IJHA_FIFO_H32_NEXT_INDEX_USED_MASK)
             new_handle == FifoNewHandle(index.handle, userflags)
         IN  [ handles |-> [handles EXCEPT ![at] =
                               [@ EXCEPT !.next_index = next_index, !.handle = new_handle]],
               num_handles |-> num_handles + 1,
               freelist_dequeue_index |-> next_index,
               asserts |-> /\ And(index.next_index, IJHA_FIFO_H32_NEXT_INDEX_FREE_BIT) # Zero32
                           /\ freelist_dequeue_index = And(index.handle, capacity_mask)
                           /\ FifoGenerationAsserts(index.handle, new_handle)
                           /\ And(index.handle, capacity_mask) = And(new_handle, capacity_mask),
               handle_out |-> new_handle,
               ret |-> And(new_handle, capacity_mask) ]

\* what ijha_fifo_h32_release stores and returns
ijha_fifo_h32_release(handle) ==
    IF ijha_fifo_h32_valid(handle)
    THEN LET sparse_index == And(handle, capacity_mask)
             freed == [handles EXCEPT ![ToNat(sparse_index)].next_index =
                          Or(@, IJHA_FIFO_H32_NEXT_INDEX_FREE_BIT)]
         IN  [ handles |-> [freed EXCEPT ![ToNat(freelist_enqueue_index)].next_index =
                               Or(sparse_index, IJHA_FIFO_H32_NEXT_INDEX_FREE_BIT)],
               num_handles |-> num_handles - 1,
               freelist_enqueue_index |-> sparse_index,
               ret |-> sparse_index ]
    ELSE [ handles |-> handles,
           num_handles |-> num_handles,
           freelist_enqueue_index |-> freelist_enqueue_index,
           ret |-> IJHA_FIFO_H32_INVALID_INDEX ]

\* the largest number of handles whose acquires in a row are kept in run
MaxDsLive == 4
\* the calls a pool of more than two records is followed for
MaxDsCalls == 6

\* the pools of two records are followed without end
DsSmall == capacity_mask = One32

\* a call is made: the program runs and the pool is followed
DsCallable == pc = "idle" /\ (DsSmall \/ since < MaxDsCalls)

DsSinceAfterCall == IF DsSmall THEN 0 ELSE since + 1

DsNoRun == [on |-> FALSE, acq |-> <<>>, rel |-> <<>>]

\* the acquires of the slot of a released handle that are counted
MaxDsReuse == 7

\* no released handle is followed
DsNoStale == [on |-> FALSE, hit |-> FALSE, h |-> Zero32, n |-> 0]

\* a released handle is followed from its release, when none is followed or
\* the followed one has been returned again
DsStaleAfterRelease(handle) ==
    IF stale.on /\ ~stale.hit THEN stale
    ELSE [on |-> TRUE, hit |-> FALSE, h |-> handle, n |-> 0]

\* n counts the acquires of the slot of the followed handle that returned
\* another handle, hit tells that an acquire returned the followed handle
DsStaleAfterAcquire(handle) ==
    IF ~stale.on \/ stale.hit THEN stale
    ELSE IF handle = IJHA_FIFO_H32_INVALID_INDEX THEN stale
    ELSE IF And(handle, capacity_mask) # And(stale.h, capacity_mask) THEN stale
    ELSE IF handle = stale.h THEN [stale EXCEPT !.hit = TRUE]
    ELSE IF stale.n < MaxDsReuse THEN [stale EXCEPT !.n = @ + 1]
    ELSE DsNoStale

DsRunAfterAcquire(handle, index) ==
    IF run.on /\ run.rel = <<>> /\ Len(run.acq) < MaxDsLive
    THEN [run EXCEPT !.acq = Append(@, [handle |-> handle, ret |-> index])]
    ELSE DsNoRun

DsRunAfterRelease(handle, is_back_index, move_from, move_to) ==
    IF run.on /\ run.rel = <<>>
    THEN [run EXCEPT !.rel = <<[handle |-> handle, ret |-> is_back_index,
                                move_from_index |-> move_from,
                                move_to_index |-> move_to]>>]
    ELSE DsNoRun

\* the caller's variables before any release
DsNoLocals == [move_from_index |-> Zero32, move_to_index |-> Zero32, accessed |-> {}]

\* variant: the dense index is the sparse index
DsAcquiredDenseIndex_Sparse(sparse_index) == sparse_index

\* unsigned dense_index = self->num_handles, read before the handle is acquired
DsAcquiredDenseIndex(sparse_index) == ToWord(num_handles)

\* the call ijha_fifo_ds_h32i32_acquire_mask(self, userflags, &handle_out)
ijha_fifo_ds_h32i32_acquire_mask(userflags) ==
    /\ DsCallable
    /\ And(FifoUserflagsMask, userflags) = userflags
    /\ \E a \in {ijha_fifo_h32_acquire_mask(userflags)} :
       LET sparse_index == a.ret
           dense_index == DsAcquiredDenseIndex(sparse_index)
       IN  /\ lastop' = "acquire"
           /\ arg' = userflags
           /\ handle_out' = a.handle_out
           /\ size' = a.num_handles
           /\ freelist_dequeue_index' = a.freelist_dequeue_index
           /\ pc' = IF a.asserts THEN "idle" ELSE "assert"
           /\ IF sparse_index = IJHA_FIFO_H32_INVALID_INDEX
              THEN /\ handles' = a.handles
                   /\ ret' = IJHA_FIFO_H32_INVALID_INDEX
              ELSE /\ handles' =
                          [[a.handles EXCEPT ![ToNat(sparse_index)].dense_index = dense_index]
                              EXCEPT ![ToNat(dense_index)].sparse_index = sparse_index]
                   /\ ret' = dense_index
    /\ UNCHANGED <<config, freelist_enqueue_index, arg2, loc>>

\* what a read of the record at an index outside the memory area can give
DsGarbage == {Zero32, ToWord(num_handles), AllOnes32}

\* the values of field of the record at index
DsRead(memory, index, field) ==
    IF InMemory(index) THEN {memory[ToNat(index)][field]} ELSE DsGarbage

\* the memory area after field of the record at index is written
DsWrite(memory, index, field, value) ==
    IF InMemory(index) THEN [memory EXCEPT ![ToNat(index)][field] = value] ELSE memory

\* variant: the back record is not moved
DsMoveBack_Never(is_back_index) == FALSE

\* if (!is_back_index)
DsMoveBack(is_back_index) == ~is_back_index

\* variant: *move_from_index is the number of handles before the release
DsMoveFromIndex_Before(n) == ToWord(n + 1)

\* *move_from_index = self->num_handles, after ijha_fifo_h32_release
DsMoveFromIndex(n) == ToWord(n)

\* variant: ijha_fifo_ds_h32i32_release tests the index before it uses it
DsReleaseReads_Checked(sparse_index_of_removed) ==
    sparse_index_of_removed # IJHA_FIFO_H32_INVALID_INDEX

\* ijha_fifo_ds_h32i32__handle_info_at(sparse_index_of_removed)->dense_index
\* is read whatever ijha_fifo_h32_release returned
DsReleaseReads(sparse_index_of_removed) == TRUE

\* the call ijha_fifo_ds_h32i32_release(self, handle, &move_from_index, &move_to_index),
\* built with assertions (ndebug false) or without (ndebug true)
ijha_fifo_ds_h32i32_release(handle, ndebug) ==
    /\ DsCallable
    /\ \E r \in {ijha_fifo_h32_release(handle)} :
       \E sparse_index_of_removed \in {r.ret} :
       \E dense_index_of_removed \in
              (IF DsReleaseReads(sparse_index_of_removed)
               THEN DsRead(r.handles, sparse_index_of_removed, "dense_index")
               ELSE {IJHA_FIFO_H32_INVALID_INDEX}) :
       LET is_back_index == dense_index_of_removed = ToWord(r.num_handles)
           asserts == /\ ijha_fifo_h32_userdata_offset(handles_stride_userdata_offset)
                             = ToWord(SizeofDsIndexhandle)
                      /\ sparse_index_of_removed # IJHA_FIFO_H32_INVALID_INDEX
           back == ToWord(r.num_handles)
           sparse_index_of_back == r.handles[r.num_handles].sparse_index
           moved == IF DsMoveBack(is_back_index)
                    THEN DsWrite(DsWrite(r.handles, sparse_index_of_back, "dense_index",
                                         dense_index_of_removed),
                                 dense_index_of_removed, "sparse_index", sparse_index_of_back)
                    ELSE r.handles
           touched == (IF DsReleaseReads(sparse_index_of_removed)
                       THEN {sparse_index_of_removed} ELSE {})
                      \cup {And(handle, capacity_mask)}
                      \cup (IF r.ret # IJHA_FIFO_H32_INVALID_INDEX
                            THEN {freelist_enqueue_index} ELSE {})
       IN  /\ lastop' = "release"
           /\ arg' = handle
           /\ size' = r.num_handles
           /\ freelist_enqueue_index' = r.freelist_enqueue_index
           /\ IF ~asserts /\ ~ndebug
              THEN /\ pc' = "assert"
                   /\ handles' = r.handles
                   /\ loc' = [loc EXCEPT !.accessed = touched]
                   /\ UNCHANGED ret
              ELSE /\ handles' = DsWrite(moved, sparse_index_of_removed, "dense_index",
                                         AllOnes32)
                   /\ loc' = [move_from_index |-> DsMoveFromIndex(r.num_handles),
                              move_to_index |-> dense_index_of_removed,
                              accessed |->
                                  touched \cup {sparse_index_of_removed}
                                  \cup (IF DsMoveBack(is_back_index)
                                        THEN {back, sparse_index_of_back,
                                              dense_index_of_removed}
                                        ELSE {})]
                   /\ ret' = IF is_back_index THEN One32 ELSE Zero32
                   /\ pc' = IF asserts THEN "idle" ELSE "undefined"
    /\ UNCHANGED <<config, freelist_dequeue_index, arg2, handle_out>>

\* what ijha_fifo_ds_h32i32_dense_index(self, handle) returns
ijha_fifo_ds_h32i32_dense_index(handle) ==
    IF ijha_fifo_h32_valid(handle)
    THEN handles[ToNat(And(handle, capacity_mask))].dense_index
    ELSE IJHA_FIFO_H32_INVALID_INDEX

\* the number of userflag bits that leaves g generation bits to n handles
DsUserflagBitsFor(n, g) == 32 - ijha_h32__num_bits(ijha_h32__roundup(ToWord(n))) - g

\* <<max_num_handles, generation bits>>: the smallest pool with every number of
\* generation bits, a pool of four records, and a pool of eight
DsPoolShapes == {<<2, g>> : g \in 0..(MaxGenBits + 1)} \cup {<<4, 1>>, <<5, 0>>}

\* ijha_fifo_ds_h32i32_init without userdata
DsConfigurations ==
    {ijha_fifo_ds_h32i32_init(p[1], DsUserflagBitsFor(p[1], p[2]), 0) : p \in DsPoolShapes}

\* the userflags that are passed
DsUserflagValues == {Zero32, FifoUserflagsMask}

DsSlots == 0..ToNat(capacity_mask)

DsInUse(i) == And(handles[i].next_index, IJHA_FIFO_H32_NEXT_INDEX_FREE_BIT) = Zero32

\* the handles that are valid
DsLiveHandles == {handles[i].handle : i \in {j \in DsSlots : DsInUse(j)}}

\* handles that are not valid: the word of each free record (the handle released
\* from it last, or never issued), and a live handle with another generation
\* or other userflags
DsInvalidHandles ==
    ({handles[i].handle : i \in {j \in DsSlots : ~DsInUse(j)}}
     \cup {FifoNewHandle(h, And(h, FifoUserflagsMask)) : h \in DsLiveHandles}
     \cup {Or(And(h, Not32(FifoUserflagsMask)), And(Not32(h), FifoUserflagsMask)) :
              h \in DsLiveHandles})
    \ DsLiveHandles

\* the memory and the struct after ijha_fifo_ds_h32i32_init, called on a memory
\* area that holds whatever was there before; side is what runs side by side
\* with the pool
InitDsWith(configurations, side) ==
    \E c \in configurations, fill \in Fills :
        LET r == ijha_fifo_h32_reset(c.capacity_mask,
                     [i \in 0..ToNat(c.capacity_mask) |->
                         [handle |-> fill, next_index |-> fill,
                          dense_index |-> fill, sparse_index |-> fill]])
        IN  /\ c.asserts
            /\ acquire_func = "ijha_fifo_ds_h32i32_acquire_mask"
            /\ release_func = "ijha_fifo_ds_h32i32_release"
            /\ flags_num_userflag_bits = Zero32
            /\ handles_stride_userdata_offset = c.handles_stride_userdata_offset
            /\ capacity = 0
            /\ capacity_mask = c.capacity_mask
            /\ generation_mask = c.generation_mask
            /\ userflags_mask = Zero32
            /\ in_use_bit = Zero32
            /\ handles = r.handles
            /\ size = r.num_handles
            /\ freelist_enqueue_index = r.freelist_enqueue_index
            /\ freelist_dequeue_index = r.freelist_dequeue_index
            /\ lastop = "init"
            /\ arg = Zero32
            /\ arg2 = Zero32
            /\ ret = Zero32
            /\ handle_out = Zero32
            /\ held = {}
            /\ follow = side
            /\ stale = DsNoStale
            /\ run = [DsNoRun EXCEPT !.on = TRUE]
            /\ fresh = TRUE
            /\ pc = "idle"
            /\ loc = DsNoLocals
            /\ owned = [i \in 0..ToNat(c.capacity_mask) |-> Zero32]
            /\ since = 0
            /\ wrapped = 0

\* nothing runs side by side with the pool
InitDs == InitDsWith(DsConfigurations, FALSE)

\* acquire, and the caller stores the handle at the dense index
DsAcquireCall ==
    \E uf \in DsUserflagValues :
        /\ ijha_fifo_ds_h32i32_acquire_mask(uf)
        /\ held' = IF ret' = IJHA_FIFO_H32_INVALID_INDEX THEN held
                   ELSE held \cup {handle_out'}
        /\ owned' = IF ret' = IJHA_FIFO_H32_INVALID_INDEX THEN owned
                    ELSE [owned EXCEPT ![ToNat(ret')] = handle_out']
        /\ run' = DsRunAfterAcquire(handle_out', ret')
        /\ since' = DsSinceAfterCall
        /\ stale' = IF ret' = IJHA_FIFO_H32_INVALID_INDEX THEN stale
                    ELSE DsStaleAfterAcquire(handle_out')
        /\ UNCHANGED <<fresh, wrapped>>

DsAcquire == DsAcquireCall /\ UNCHANGED follow

\* release of a valid handle, and the caller moves the back of its array
DsReleaseCall ==
    \E h \in DsLiveHandles :
        /\ ijha_fifo_ds_h32i32_release(h, FALSE)
        /\ held' = held \ {h}
        /\ owned' = [[owned EXCEPT ![ToNat(loc'.move_to_index)] =
                         owned[ToNat(loc'.move_from_index)]]
                        EXCEPT ![ToNat(loc'.move_from_index)] = Zero32]
        /\ run' = DsRunAfterRelease(h, ret', loc'.move_from_index, loc'.move_to_index)
        /\ since' = DsSinceAfterCall
        /\ fresh' = FALSE
        /\ stale' = DsStaleAfterRelease(h)
        /\ UNCHANGED wrapped

DsRelease == DsReleaseCall /\ UNCHANGED follow

\* release of a handle that is not valid
DsReleaseInvalid ==
    \E h \in DsInvalidHandles, ndebug \in BOOLEAN :
        /\ ijha_fifo_ds_h32i32_release(h, ndebug)
        /\ run' = DsNoRun
        /\ since' = DsSinceAfterCall
        /\ UNCHANGED <<held, owned, follow, stale, fresh, wrapped>>

\* the call ijha_fifo_ds_h32i32_dense_index(self, handle)
DsDenseIndex ==
    \E h \in DsLiveHandles \cup DsInvalidHandles :
        /\ DsCallable
        /\ lastop' = "dense_index"
        /\ arg' = h
        /\ ret' = ijha_fifo_ds_h32i32_dense_index(h)
        /\ since' = DsSinceAfterCall
        /\ UNCHANGED <<config, core, arg2, handle_out, held, follow, stale, run, fresh,
                       pc, loc, owned, wrapped>>

NextDs ==
    \/ DsAcquire
    \/ DsRelease
    \/ DsReleaseInvalid
    \/ DsDenseIndex

SpecDs == InitDs /\ [][NextDs]_vars

(***************************************************************************)
(* ijss.h: the sparse set.  self is struct ijss with the two index arrays  *)
(* it points to: self.dense[i] and self.sparse[i] are the indices at       *)
(* dense + dense_stride * i and sparse + sparse_stride * i.  Indices are   *)
(* numbers; a cell holds elementsize bytes.                                *)
(***************************************************************************)
SSHA_INVALID_HANDLE == -1

\* 0xffffffffu >> (8 * (4 - len)) >= value
IjssFits(len, value) == ToWord(value) \subseteq Shr32(AllOnes32, 8 * (4 - len))

\* the value ijss__load reads from a cell of len bytes
ijss__load(cell, len) == IF len = 4 THEN cell ELSE cell % Pow2(8 * len)

\* the cell after ijss__store(dst, len, value)
ijss__store(len, value) == IF len = 4 THEN value ELSE value % Pow2(8 * len)

\* D[idx] = value
IJSS__STORE_DENSE(self, idx, value) ==
    [self EXCEPT !.dense[idx] = ijss__store(self.elementsize, value)]

\* S[idx] = value
IJSS__STORE_SPARSE(self, idx, value) ==
    [self EXCEPT !.sparse[idx] = ijss__store(self.elementsize, value)]

\* D[idx]
IJSS__LOAD_DENSE(self, idx) == ijss__load(self.dense[idx], self.elementsize)

\* S[idx]
IJSS__LOAD_SPARSE(self, idx) == ijss__load(self.sparse[idx], self.elementsize)

ijss_reset(self) == [self EXCEPT !.size = 0]

\* ijss_init on the arrays dense and sparse, which hold what was there before
ijss_init(dense, sparse, elementsize, cap) ==
    [ asserts |-> elementsize >= 1 /\ elementsize <= 4 /\ IjssFits(elementsize, cap),
      self |-> ijss_reset([dense |-> dense, sparse |-> sparse, size |-> 0,
                           capacity |-> cap, elementsize |-> elementsize,
                           reserved32 |-> 0]) ]

RECURSIVE IjssStoreIdentity(_, _)
\* for (i = from; i != self->capacity; ++i) IJSS__STORE_DENSE(i, i)
IjssStoreIdentity(self, from) ==
    IF from = self.capacity THEN self
    ELSE IjssStoreIdentity(IJSS__STORE_DENSE(self, from, from), from + 1)

ijss_reset_identity(self) == IjssStoreIdentity([self EXCEPT !.size = 0], 0)

\* variant: the stores of ijss_add land at the sparse index
IjssAddedDenseIndex_Sparse(self, sparse_index) == sparse_index

\* unsigned dense_index = self->size++
IjssAddedDenseIndex(self, sparse_index) == self.size

\* ijss_add(self, sparse_index): the struct afterwards, the value returned and
\* whether the assertions hold
ijss_add(self, sparse_index) ==
    LET dense_index == IjssAddedDenseIndex(self, sparse_index)
        now == [self EXCEPT !.size = self.size + 1]
        asserts == /\ IjssFits(self.elementsize, dense_index)
                   /\ IjssFits(self.elementsize, sparse_index)
                   /\ self.capacity > dense_index
                   /\ self.capacity > sparse_index
    IN  [ asserts |-> asserts,
          self |-> IF asserts
                   THEN IJSS__STORE_SPARSE(IJSS__STORE_DENSE(now, dense_index, sparse_index),
                                           sparse_index, dense_index)
                   ELSE now,
          ret |-> dense_index ]

ijss_has(self, sparse_index) ==
    IF sparse_index >= self.capacity THEN FALSE
    ELSE \E dense_index \in {IJSS__LOAD_SPARSE(self, sparse_index)} :
            self.size > dense_index /\ IJSS__LOAD_DENSE(self, dense_index) = sparse_index

\* variant: the removed index is not stored at the back
IjssStoreRemovedAtBack_Not(self, size_now, sparse_index) == self

\* IJSS__STORE_DENSE(size_now, sparse_index), the store marked #1
IjssStoreRemovedAtBack(self, size_now, sparse_index) ==
    IJSS__STORE_DENSE(self, size_now, sparse_index)

\* variant: the back is not moved to the place of the removed index
IjssMoveBack_Not(self, dense_index_of_removed, sparse_index_of_back) == self

\* IJSS__STORE_DENSE(dense_index_of_removed, sparse_index_of_back);
\* IJSS__STORE_SPARSE(sparse_index_of_back, dense_index_of_removed)
IjssMoveBack(self, dense_index_of_removed, sparse_index_of_back) ==
    IJSS__STORE_SPARSE(
        IJSS__STORE_DENSE(self, dense_index_of_removed, sparse_index_of_back),
        sparse_index_of_back, dense_index_of_removed)

\* variant: the size before the removal is reported
IjssMoveFromIndex_Before(size_now) == size_now + 1

\* *move_from_index = size_now
IjssMoveFromIndex(size_now) == size_now

\* ijss_remove(self, sparse_index, &move_to_index, &move_from_index), the
\* out-parameters holding out before the call
ijss_remove(self, sparse_index, out) ==
    IF ~ijss_has(self, sparse_index)
    THEN [ asserts |-> TRUE, self |-> self, ret |-> -1,
           move_to_index |-> out.move_to_index,
           move_from_index |-> out.move_from_index ]
    ELSE LET size_now == self.size - 1
             dense_index_of_removed == IJSS__LOAD_SPARSE(self, sparse_index)
             sparse_index_of_back == IJSS__LOAD_DENSE(self, size_now)
             stored == IjssMoveBack(IjssStoreRemovedAtBack(self, size_now, sparse_index),
                                    dense_index_of_removed, sparse_index_of_back)
         IN  [ asserts |-> /\ self.capacity > size_now
                           /\ self.capacity > dense_index_of_removed
                           /\ size_now >= dense_index_of_removed,
               self |-> [stored EXCEPT !.size = self.size - 1],
               ret |-> IF dense_index_of_removed # size_now THEN 1 ELSE 0,
               move_to_index |-> dense_index_of_removed,
               move_from_index |-> IjssMoveFromIndex(size_now) ]

ijss_dense_index(self, sparse_index) == IJSS__LOAD_SPARSE(self, sparse_index)

ijss_sparse_index(self, dense_index) == IJSS__LOAD_DENSE(self, dense_index)

\* ijss_alloc_handle of the tests: the handle and the dense index
ijss_alloc_handle(self) ==
    IF self.capacity = self.size
    THEN [ asserts |-> TRUE, self |-> self, ret |-> SSHA_INVALID_HANDLE, dense |-> 0 ]
    ELSE LET h == ijss_sparse_index(self, self.size)
             a == ijss_add(self, h)
         IN  [ asserts |-> /\ a.asserts
                           /\ a.ret = ijss_dense_index(a.self, h)
                           /\ a.ret = a.self.size - 1,
               self |-> a.self, ret |-> h, dense |-> a.ret ]

\* the largest capacity of a set that is used with ijss_add and ijss_reset
MaxSsCapacity == 3

\* <<capacity, elementsize>>; the set of the largest capacity is used as a
\* handle allocator only
SsShapes == {<<1, 1>>, <<2, 2>>, <<MaxSsCapacity, 4>>, <<MaxSsCapacity + 1, 1>>}

\* what the cells of the two arrays hold before ijss_init
SsFills(cap) == {0, cap - 1, 255}

SsCallable == pc = "idle"

\* the set is used with ijss_add and ijss_reset
SsAsSet == ~follow /\ handles.capacity <= MaxSsCapacity

\* the removals in a row that are kept in the log of an allocator
MaxSsFrees == 2

\* the log of a handle allocator: the handles of the allocations in a row since
\* ijss_reset_identity, of the removals in a row after them, and of the
\* allocations in a row after those
SsNoLog == [on |-> FALSE, acq |-> <<>>, rel |-> <<>>, re |-> <<>>]

SsLogAfterAlloc(h) ==
    IF ~stale.on \/ h = SSHA_INVALID_HANDLE THEN SsNoLog
    ELSE IF stale.rel = <<>> THEN [stale EXCEPT !.acq = Append(@, h)]
    ELSE IF Len(stale.re) < Len(stale.rel) THEN [stale EXCEPT !.re = Append(@, h)]
    ELSE SsNoLog

SsLogAfterRemove(h, r) ==
    IF ~stale.on \/ r < 0 THEN SsNoLog
    ELSE IF stale.re = <<>> /\ Len(stale.rel) < MaxSsFrees
         THEN [stale EXCEPT !.rel = Append(@, h)]
    ELSE SsNoLog

SsNoLocals(fill) == [move_to_index |-> fill, move_from_index |-> fill]

\* the fields of the other structs, which the sparse set does not have
SsUnused ==
    /\ acquire_func = "none"
    /\ release_func = "none"
    /\ flags_num_userflag_bits = Zero32
    /\ handles_stride_userdata_offset = Zero32
    /\ size = 0
    /\ capacity = 0
    /\ capacity_mask = Zero32
    /\ generation_mask = Zero32
    /\ userflags_mask = Zero32
    /\ in_use_bit = Zero32
    /\ freelist_enqueue_index = Zero32
    /\ freelist_dequeue_index = Zero32
    /\ arg2 = Zero32
    /\ handle_out = Zero32
    /\ owned = <<>>
    /\ since = 0
    /\ wrapped = 0

SsUnusedUnchanged ==
    UNCHANGED <<config, size, freelist_enqueue_index, freelist_dequeue_index,
                arg2, handle_out, owned, since, wrapped>>

\* the struct after ijss_init, on arrays that hold whatever was there before
InitSs ==
    \E shape \in SsShapes :
    \E fill \in SsFills(shape[1]) :
    \E c \in {ijss_init([i \in 0..(shape[1] - 1) |-> fill],
                        [i \in 0..(shape[1] - 1) |-> fill], shape[2], shape[1])} :
        /\ c.asserts
        /\ handles = c.self
        /\ lastop = "init"
        /\ arg = 0
        /\ ret = 0
        /\ held = {}
        /\ follow = FALSE
        /\ run = <<>>
        /\ stale = SsNoLog
        /\ fresh = TRUE
        /\ pc = "idle"
        /\ loc = SsNoLocals(fill)
        /\ SsUnused

\* the call ijss_add(self, sparse_index); without assertions a store outside
\* the arrays is undefined
SsAdd ==
    /\ SsCallable
    /\ SsAsSet
    /\ \E sparse_index \in 0..handles.capacity, ndebug \in BOOLEAN :
       \E a \in {ijss_add(handles, sparse_index)} :
           /\ lastop' = "add"
           /\ arg' = sparse_index
           /\ handles' = a.self
           /\ ret' = IF a.asserts THEN a.ret ELSE ret
           /\ pc' = IF a.asserts THEN "idle" ELSE IF ndebug THEN "undefined" ELSE "assert"
           /\ held' = IF a.asserts THEN held \cup {sparse_index} ELSE held
           /\ fresh' = (fresh /\ ~ijss_has(handles, sparse_index))
           /\ UNCHANGED <<follow, run, stale, loc>>
           /\ SsUnusedUnchanged

\* the call ijss_remove(self, sparse_index, &move_to, &move_from)
SsRemove ==
    /\ SsCallable
    /\ \E sparse_index \in 0..handles.capacity :
       \E r \in {ijss_remove(handles, sparse_index, loc)} :
           /\ lastop' = "remove"
           /\ arg' = sparse_index
           /\ handles' = r.self
           /\ ret' = r.ret
           /\ loc' = [move_to_index |-> r.move_to_index, move_from_index |-> r.move_from_index]
           /\ pc' = IF r.asserts THEN "idle" ELSE "assert"
           /\ held' = IF r.ret >= 0 THEN held \ {sparse_index} ELSE held
           /\ run' = IF follow /\ r.ret >= 0 THEN <<sparse_index>> \o run ELSE run
           /\ stale' = SsLogAfterRemove(sparse_index, r.ret)
           /\ UNCHANGED <<follow, fresh>>
           /\ SsUnusedUnchanged

\* the call ijss_reset(self)
SsReset ==
    /\ SsCallable
    /\ SsAsSet
    /\ lastop' = "reset"
    /\ handles' = ijss_reset(handles)
    /\ held' = {}
    /\ fresh' = TRUE
    /\ UNCHANGED <<arg, ret, follow, run, stale, pc, loc>>
    /\ SsUnusedUnchanged

\* the call ijss_reset_identity(self): from here on the set is a handle allocator
SsResetIdentity ==
    /\ SsCallable
    /\ lastop' = "reset_identity"
    /\ handles' = ijss_reset_identity(handles)
    /\ held' = {}
    /\ fresh' = TRUE
    /\ follow' = TRUE
    /\ run' = <<>>
    /\ stale' = [SsNoLog EXCEPT !.on = TRUE]
    /\ UNCHANGED <<arg, ret, pc, loc>>
    /\ SsUnusedUnchanged

\* the call ijss_alloc_handle(self, &dense)
SsAlloc ==
    /\ SsCallable
    /\ follow
    /\ \E a \in {ijss_alloc_handle(handles)} :
           /\ lastop' = "alloc"
           /\ handles' = a.self
           /\ ret' = a.ret
           /\ pc' = IF a.asserts THEN "idle" ELSE "assert"
           /\ held' = IF a.ret = SSHA_INVALID_HANDLE THEN held ELSE held \cup {a.ret}
           /\ run' = IF a.ret = SSHA_INVALID_HANDLE \/ run = <<>> THEN run ELSE Tail(run)
           /\ stale' = SsLogAfterAlloc(a.ret)
           /\ UNCHANGED <<arg, follow, fresh, loc>>
           /\ SsUnusedUnchanged

NextSs ==
    \/ SsAdd
    \/ SsRemove
    \/ SsReset
    \/ SsResetIdentity
    \/ SsAlloc

SpecSs == InitSs /\ [][NextSs]_vars

(***************************************************************************)
(* The pool of ijha_fifo_ds_h32i32.h with a sparse set of ijss.h run side  *)
(* by side: follow holds the struct ijss with its arrays and what the last *)
(* call on it returned.  ijss_add(s) is called after every acquire that    *)
(* returns a handle of sparse index s, ijss_remove(s) after every release  *)
(* of a valid handle of sparse index s.                                    *)
(***************************************************************************)
\* <<max_num_handles, generation bits>> of the pools that run with a sparse set
DsSsPoolShapes == {<<2, 1>>, <<4, 1>>}

DsSsConfigurations ==
    {ijha_fifo_ds_h32i32_init(p[1], DsUserflagBitsFor(p[1], p[2]), 0) :
         p \in DsSsPoolShapes}

\* the sparse set after ijss_add(sparse_index)
DsSsAfterAdd(side, sparse_index) ==
    LET a == ijss_add(side.self, sparse_index)
    IN  [side EXCEPT !.self = a.self, !.asserts = a.asserts, !.ret = a.ret]

\* the sparse set after ijss_remove(sparse_index, &move_to_index, &move_from_index)
DsSsAfterRemove(side, sparse_index) ==
    LET r == ijss_remove(side.self, sparse_index, side)
    IN  [ self |-> r.self, asserts |-> r.asserts, ret |-> r.ret,
          move_to_index |-> r.move_to_index,
          move_from_index |-> r.move_from_index ]

\* ijha_fifo_ds_h32i32_init, and ijss_init with as many cells as the pool has
\* records, of four bytes each
InitDsSs ==
    \E c \in DsSsConfigurations :
    \E fill \in SsFills(ToNat(c.capacity_mask) + 1) :
    \E i \in {ijss_init([k \in 0..ToNat(c.capacity_mask) |-> fill],
                        [k \in 0..ToNat(c.capacity_mask) |-> fill],
                        4, ToNat(c.capacity_mask) + 1)} :
        /\ i.asserts
        /\ InitDsWith({c}, [ self |-> i.self, asserts |-> TRUE, ret |-> 0,
                             move_to_index |-> fill, move_from_index |-> fill ])

DsSsAcquire ==
    /\ DsAcquireCall
    /\ follow' = IF ret' = IJHA_FIFO_H32_INVALID_INDEX THEN follow
                 ELSE DsSsAfterAdd(follow, ToNat(And(handle_out', capacity_mask)))

DsSsRelease ==
    /\ DsReleaseCall
    /\ follow' = DsSsAfterRemove(follow, ToNat(And(arg', capacity_mask)))

NextDsSs ==
    \/ DsSsAcquire
    \/ DsSsRelease
    \/ DsReleaseInvalid
    \/ DsDenseIndex

SpecDsSs == InitDsSs /\ [][NextDsSs]_vars

(***************************************************************************)
(* Properties.                                                             *)
(***************************************************************************)
AcquireOk == lastop = "acquire" /\ ret # IJHA_H32_INVALID_INDEX
AcquireFailed == lastop = "acquire" /\ ret = IJHA_H32_INVALID_INDEX
ReleaseOk == lastop = "release" /\ ret # IJHA_H32_INVALID_INDEX
ReleaseFailed == lastop = "release" /\ ret = IJHA_H32_INVALID_INDEX

\* the number of generation bits G
GenBits == Cardinality(generation_mask)

DefaultLayout == in_use_bit = {31}

InUseSlots == {i \in Slots : And(handles[i], in_use_bit) # Zero32}
FreeSlots == Slots \ InUseSlots

\* C1: a successful acquire(uf) returns index i and a handle h with
\* userflags(h) = uf, index(h) = i, in_use(h) # 0 and valid(h); release of a valid
\* handle h returns index(h) and leaves h not valid.
C1_RoundTrip ==
    /\ [](AcquireOk => /\ ijha_h32_userflags(handle_out) = arg
                       /\ ijha_h32_index(handle_out) = ret
                       /\ ijha_h32_in_use(handle_out) # Zero32
                       /\ ijha_h32_valid(handle_out))
    /\ [][\A h \in ReleaseHandles :
            (lastop' = "release" /\ arg' = h /\ ijha_h32_valid(h))
                => (ret' = ijha_h32_index(h) /\ ~(ijha_h32_valid(h))')]_vars

\* a handle that carries userflags was acquired and has been released
C1_Witness ==
    /\ ReleaseOk
    /\ And(arg, userflags_mask) # Zero32
    /\ ~ijha_h32_valid(arg)

\* C2: release of a handle that is not valid returns INVALID_INDEX and leaves size,
\* the freelist cursors and every slot word unchanged; releasing the same handle a
\* second time returns INVALID_INDEX.
C2_DoubleFree ==
    [][/\ (lastop' = "release" /\ ~ijha_h32_valid(arg'))
            => (ret' = IJHA_H32_INVALID_INDEX /\ UNCHANGED core)
       /\ (ReleaseOk /\ lastop' = "release" /\ arg' = arg)
            => ret' = IJHA_H32_INVALID_INDEX]_vars

\* a handle that was acquired and released is released again and is rejected
C2_Witness ==
    /\ ReleaseFailed
    /\ ijha_h32_in_use(arg) # Zero32
    /\ ToNat(ijha_h32_index(arg)) < capacity
    /\ GenBits >= 1
    /\ And(arg, generation_mask) # generation_mask
    /\ LET w == handles[ToNat(ijha_h32_index(arg))]
       IN  /\ And(w, in_use_bit) = Zero32
           /\ And(w, Or(generation_mask, userflags_mask))
                = And(arg, Or(generation_mask, userflags_mask))

\* C3: after release(h), h is not valid until the slot index(h) has been acquired
\* 2^G times again: none of the first 2^G - 1 handles returned for the slot equals
\* h, and the 2^G-th, when acquired with the userflags of h, equals h.
C3_StaleBudget ==
    /\ (stale.on /\ stale.n < NumGenerations) => ~ijha_h32_valid(stale.h)
    /\ (stale.on /\ lastop = "acquire" /\ ret = ijha_h32_index(stale.h)) =>
          /\ stale.n >= 1
          /\ stale.n < NumGenerations => handle_out # stale.h
          /\ (stale.n = NumGenerations /\ arg = And(stale.h, userflags_mask))
                => handle_out = stale.h

\* with two generation bits the fourth handle of the slot equals the released one
C3_Witness ==
    /\ stale.on
    /\ GenBits = 2
    /\ stale.n = 4
    /\ lastop = "acquire"
    /\ handle_out = stale.h
    /\ ijha_h32_valid(stale.h)

GenShift ==
    IF generation_mask = {} THEN 0
    ELSE CHOOSE i \in generation_mask : \A j \in generation_mask : i <= j

\* the generation field of a word as a number in 0..2^G - 1
GenNumber(w) == ToNat(Shr32(And(w, generation_mask), GenShift))

\* C5 as claimed: with G >= 2 no acquired handle has a generation field that is
\* all-zero or all-ones.
C5_GenerationSkips ==
    (AcquireOk /\ GenBits >= 2)
        => And(handle_out, generation_mask) \notin {Zero32, generation_mask}

\* C5: acquire skips no generation value: the n-th handle returned for the slot of
\* a released handle h has the generation of h advanced by n modulo 2^G, so its
\* generation is that of h only for n = 2^G, after 2^G - 1 handles that differ.
C5_GenerationCycles ==
    (stale.on /\ lastop = "acquire" /\ ret = ijha_h32_index(stale.h)) =>
        /\ GenNumber(handle_out) = (GenNumber(stale.h) + stale.n) % NumGenerations
        /\ (And(handle_out, generation_mask) = And(stale.h, generation_mask))
              <=> stale.n = NumGenerations

\* with G >= 2 the slot of a released handle has been acquired 2^G - 1 times with
\* its userflags, through generation all-ones or zero, and the handle differs
C5_Witness ==
    /\ stale.on
    /\ GenBits >= 2
    /\ lastop = "acquire"
    /\ ret = ijha_h32_index(stale.h)
    /\ stale.n = NumGenerations - 1
    /\ arg = And(stale.h, userflags_mask)
    /\ And(handle_out, generation_mask) \in {Zero32, generation_mask}
    /\ handle_out # stale.h

\* C6: acquire returns INVALID_INDEX exactly when the number of live handles equals
\* ijha_h32_capacity; a failing acquire writes 0 to handle_out and changes neither
\* size, the freelist cursors nor any slot word.
C6_Exhaustion ==
    [][lastop' = "acquire" =>
          /\ (ret' = IJHA_H32_INVALID_INDEX) <=> (Cardinality(held) = ijha_h32_capacity)
          /\ (ret' = IJHA_H32_INVALID_INDEX) => (handle_out' = Zero32 /\ UNCHANGED core)]_vars

\* an acquire fails on a full FIFO pool whose capacity is no power of two
C6_Witness ==
    /\ AcquireFailed
    /\ ijha_h32_is_fifo
    /\ capacity = 3
    /\ Cardinality(held) = 2

\* C7: 0 <= size <= usable capacity, and size is the number of slots whose word has
\* the in-use bit, which is the number of handles acquired and not yet released.
C7_SizeInvariant ==
    /\ size \in 0..ijha_h32_capacity
    /\ size = Cardinality(InUseSlots)
    /\ size = Cardinality(held)

\* a full pool after a call of userflags_set
C7_Witness ==
    /\ size = ijha_h32_capacity
    /\ lastop = "userflags_set"
    /\ capacity = 3

RECURSIVE FreeChain(_, _)
\* the indices met by following the links from index i for at most k steps,
\* stopping at an index that is no slot and, thread-safe, at the sentinel 0
FreeChain(i, k) ==
    IF k = 0 \/ (IsThreadSafe /\ i = 0) THEN <<>>
    ELSE IF i >= capacity THEN <<i>>
    ELSE <<i>> \o FreeChain(ToNat(And(handles[i], capacity_mask)), k - 1)

\* the free chain: capacity - size steps (LIFO, FIFO), up to the sentinel (thread-safe)
TheFreeChain ==
    FreeChain(ToNat(And(freelist_dequeue_index, capacity_mask)),
              IF IsThreadSafe THEN capacity ELSE capacity - size)

\* C8: every slot is either live (its word has the in-use bit and is a valid handle)
\* or occurs exactly once on the free chain (thread-safe: slot 0 is neither); the
\* chain holds no in-use slot, no index >= capacity and no repetition.
C8_Partition ==
    LET chain == TheFreeChain
        on == {chain[j] : j \in 1..Len(chain)}
    IN  /\ \A i \in InUseSlots : ijha_h32_valid(handles[i])
        /\ \A j \in 1..Len(chain) : chain[j] < capacity /\ chain[j] \notin InUseSlots
        /\ Cardinality(on) = Len(chain)
        /\ on = FreeSlots \ (IF IsThreadSafe THEN {0} ELSE {})
        /\ IsThreadSafe => 0 \in FreeSlots

\* a released slot is on a free chain of two slots while a handle is live
C8_Witness ==
    /\ ReleaseOk
    /\ size >= 1
    /\ Len(TheFreeChain) = 2
    /\ ToNat(ret) \in {TheFreeChain[j] : j \in 1..Len(TheFreeChain)}

\* C9: an acquire, successful or not, and a release of another handle, valid or
\* not, leave the word of every live handle unchanged.
C9_Frame ==
    [][\A i \in InUseSlots :
          (lastop' = "acquire" \/ (lastop' = "release" /\ arg' # handles[i]))
              => handles'[i] = handles[i]]_vars

\* a handle is released while another handle is live
C9_Witness ==
    /\ ReleaseOk
    /\ size >= 1
    /\ \E i \in InUseSlots : handles[i] # arg /\ ijha_h32_valid(handles[i])

Range(q) == {q[j] : j \in 1..Len(q)}

C11_LifoOrder ==
    /\ [](~ijha_h32_is_fifo =>
            \A j \in 1..Len(run.acq) :
                j <= Len(run.rel) => run.acq[j] = run.rel[Len(run.rel) + 1 - j])
    /\ [][(~ijha_h32_is_fifo /\ ReleaseOk /\ lastop' = "acquire") =>
            /\ ret' = ijha_h32_index(arg)
            /\ GenNumber(handle_out') = (GenNumber(arg) + 1) % NumGenerations]_vars

\* three handles are acquired with indices 0, 1, 2, the second is released and the
\* next acquire returns index 1
C11_Witness ==
    /\ release_func = "ijha_h32__release_lifo"
    /\ size = 3
    /\ run = [rel |-> <<1>>, acq |-> <<1>>, free |-> 0]
    /\ lastop = "acquire"

\* gen_add as the claim states it
GenAddClaimed ==
    IF DefaultLayout THEN Inc32(capacity_mask) ELSE Shl32(Inc32(capacity_mask), 1)

\* C12: an acquire of a slot stores a handle whose generation field is the field of
\* the slot's previous word plus gen_add, masked by generation_mask (gen_add =
\* capacity_mask + 1, or (capacity_mask + 1) << 1 with the in-use bit below), and
\* differs from it when G >= 1; release, userflags_set and every other slot of an
\* acquire keep the generation field.
C12_GenerationBump ==
    [][\A i \in DOMAIN handles :
          LET old == And(handles[i], generation_mask)
              new == And(handles'[i], generation_mask)
          IN  /\ (lastop' = "acquire" /\ ret' = ToWord(i)) =>
                    /\ new = And(Add32(old, GenAddClaimed), generation_mask)
                    /\ And(handle_out', generation_mask) = new
                    /\ GenBits >= 1 => new # old
              /\ (lastop' \in {"acquire", "release", "userflags_set"}
                     /\ ~(lastop' = "acquire" /\ ret' = ToWord(i))) => new = old]_vars

\* with the in-use bit below the generation, a slot has been acquired four times
C12_Witness ==
    /\ AcquireOk
    /\ ~DefaultLayout
    /\ GenBits = 2
    /\ GenNumber(handle_out) = 3

\* C13: as long as no handle has been released since init or reset, the k-th
\* acquire (k = 0, 1, ...) with userflags uf returns index k (k + 1 thread-safe) and
\* the handle uf | in_use_bit | index, with generation 0; in the default layout and
\* without userflags that is 0x80000000 | index, whatever the capacity.
C13_FirstHandles ==
    (AcquireOk /\ fresh) =>
        LET k == size - 1
        IN  /\ ret = ToWord(IF IsThreadSafe THEN k + 1 ELSE k)
            /\ handle_out = Or(arg, Or(in_use_bit, ret))
            /\ And(handle_out, generation_mask) = Zero32
            /\ (DefaultLayout /\ arg = Zero32) => handle_out = {31} \cup ret

\* the third acquire with no release before it returns index 2 in a handle with
\* userflags
C13_Witness ==
    /\ AcquireOk
    /\ fresh
    /\ size = 3
    /\ ret = ToWord(2)
    /\ arg # Zero32
    /\ GenBits = 0


(***************************************************************************)
(* The claims about the threads.                                           *)
(***************************************************************************)
\* the slots of the handles thread t got from acquire and has not released
HeldBy(t) == {ToNat(ijha_h32_index(h)) : h \in owned[t]}

Exclusive == \A t, u \in Threads : t # u => HeldBy(t) \cap HeldBy(u) = {}

OwnedValid == \A t \in Threads : \A h \in owned[t] : ijha_h32_valid(h)

PendingDecrements == Cardinality({t \in Threads : pc[t] = "release_decrement"})

Quiescent == \A t \in Threads : pc[t] = "idle"

HeldSlots == UNION {HeldBy(t) : t \in Threads}

\* the handles acquired and not yet released, over the threads 1..n
RECURSIVE OwnedCount(_)
OwnedCount(n) == IF n = 0 THEN 0 ELSE Cardinality(owned[n]) + OwnedCount(n - 1)

\* the free chain from slot i: the slots it visits, up to k of them, and the
\* index it ends in (the sentinel 0, or the first slot that is not followed)
RECURSIVE ChainTs(_, _)
ChainTs(i, k) ==
    IF i = 0 \/ i \notin DOMAIN handles \/ k = 0 THEN <<i>>
    ELSE <<i>> \o ChainTs(ToNat(And(handles[i], capacity_mask)), k - 1)

TheChainTs ==
    ChainTs(ToNat(And(freelist_dequeue_index, capacity_mask)), SlotsFollowed(capacity))

\* size is the number of handles held, and the free chain visits the free
\* slots, each once, and ends in the sentinel (for a pool with more slots than
\* are followed: in the first slot that no thread has reached, from where the
\* links of reset lead through the rest to the sentinel)
Consistent ==
    LET n == Len(TheChainTs)
        visited == {TheChainTs[j] : j \in 1..(n - 1)}
    IN  /\ size = OwnedCount(NumThreads)
        /\ visited = (1..(SlotsFollowed(capacity) - 1)) \ HeldSlots
        /\ Cardinality(visited) = n - 1
        /\ TheChainTs[n] = (IF capacity > MaxSlots THEN MaxSlots ELSE 0)
        /\ \A i \in 1..(SlotsFollowed(capacity) - 1) :
               i \in HeldSlots <=> ijha_h32_in_use(handles[i]) # Zero32
        /\ (HeldSlots = {} => size = 0)

AcquireCasSucceeds(t) == pc[t] = "acquire_cas" /\ pc'[t] = "acquire_store"
ReleaseCasSucceeds(t) == pc[t] = "release_cas" /\ pc'[t] = "release_decrement"

\* the link the acquire of t installs as the head is the link its slot holds
InstallsCurrentLink(t) ==
    LET current_index == ToNat(And(loc[t].old_freelist_index_serial, capacity_mask))
    IN  And(freelist_dequeue_index', capacity_mask)
            = And(handles[current_index], capacity_mask)

\* the bits of the serial: those above the index
SerialBits == 32 - IndexBits

\* n compare-and-swaps are at least a full turn of the serial: n >= 2^SerialBits
FullTurn(n) == n > 0 /\ SerialBits <= ijha_h32__num_bits(ToWord(n))

\* the serial of new is one more than that of old, modulo its width
SerialBumped(old, new) ==
    LET serial_mask == Not32(capacity_mask)
    IN  IF And(old, serial_mask) = serial_mask
        THEN And(new, serial_mask) = Zero32
        ELSE ToNat(Shr32(new, IndexBits)) = ToNat(Shr32(old, IndexBits)) + 1

LoadedIndex(t) == And(loc[t].old_freelist_index_serial, capacity_mask)

\* the step is the return of an acquire of thread t, with an index or without
AcquireReturnsIndex(t) == pc[t] = "acquire_increment" /\ pc'[t] = "idle"
AcquireReturnsInvalid(t) ==
    /\ pc[t] = "acquire_read"
    /\ pc'[t] = "idle"
    /\ loc'[t].ret = IJHA_H32_INVALID_INDEX
    /\ loc'[t].handle_out = Zero32

\* C18: in the thread-safe LIFO variant, under any interleaving of acquire and
\* release, acquire never returns index 0 (no handle held has index 0), no
\* operation writes the word of slot 0, and acquire returns INVALID_INDEX, with
\* handle_out = 0, exactly when the head index it loaded is 0.
C18_Sentinel ==
    /\ [](\A t \in Threads : \A h \in owned[t] : ijha_h32_index(h) # Zero32)
    /\ [][/\ handles'[0] = handles[0]
          /\ \A t \in Threads :
                /\ AcquireReturnsIndex(t) =>
                       /\ LoadedIndex(t) # Zero32
                       /\ ijha_h32_index(loc[t].handle_out) = LoadedIndex(t)
                       /\ loc[t].handle_out \in owned'[t]
                /\ (pc[t] = "acquire_read" /\ pc'[t] # "acquire_read") =>
                       (LoadedIndex(t) = Zero32 <=> AcquireReturnsInvalid(t))
                /\ (pc[t] = "acquire_read" /\ pc'[t] = "acquire_cas") =>
                       LoadedIndex(t) # Zero32
                /\ (pc[t] \in {"acquire_load", "acquire_cas", "acquire_store",
                                "acquire_increment"}) =>
                       loc'[t].ret # IJHA_H32_INVALID_INDEX]_vars

\* a thread found the head at the sentinel, the other one holding the only
\* slot, and got INVALID_INDEX and the handle 0
C18_Witness ==
    /\ ~Wrapped
    /\ And(freelist_dequeue_index, capacity_mask) = Zero32
    /\ pc[1] = "idle"
    /\ loc[1].ret = IJHA_H32_INVALID_INDEX
    /\ loc[1].handle_out = Zero32
    /\ owned[1] = {}
    /\ owned[2] # {}


\* the step is a failed compare-and-swap of thread t
CasFails(t) ==
    \/ pc[t] = "acquire_cas" /\ pc'[t] = "acquire_load"
    \/ pc[t] = "release_cas" /\ pc'[t] = "release_load"

\* the step is the return of an acquire or a release some thread was inside
Completes == \E t \in Threads : pc[t] # "idle" /\ pc'[t] = "idle"

\* C19: whenever the compare-and-swap of a thread in acquire or release fails, a
\* compare-and-swap of another thread succeeded since this thread's load; a
\* thread inside acquire or release can always take its next step, whatever
\* the others do; and under a fair scheduler, as long as an acquire or release
\* is pending, again and again some operation completes.
C19_LockFree ==
    /\ [][\A t \in Threads : CasFails(t) => since[t] > 0]_vars
    /\ [](\A t \in Threads : pc[t] # "idle" => ENABLED Continue(t))
    /\ (<>[]Quiescent) \/ ([]<><<Completes>>_vars)

\* the compare-and-swap of thread 1 failed and it is about to load again, thread
\* 2 being between its own compare-and-swap and its return
C19_Witness ==
    /\ pc[1] = "acquire_load"
    /\ since[1] > 0
    /\ pc[2] \in {"acquire_store", "release_decrement"}


\* the step is a successful compare-and-swap of a thread other than t
OtherCasSucceeds(t) ==
    \E u \in Threads \ {t} : AcquireCasSucceeds(u) \/ ReleaseCasSucceeds(u)

\* C20 as stated: under a fair scheduler every acquire or release that was
\* started returns, whatever the other threads do
C20_AlwaysCompletes == \A t \in Threads : (pc[t] # "idle") ~> (pc[t] = "idle")

\* C20: under a fair scheduler every acquire or release that was started
\* returns, unless the compare-and-swaps of other threads succeed again and
\* again for ever: the number of retries is bounded by the number of those,
\* and by nothing else.
C20_CompletesUnlessOvertaken ==
    \A t \in Threads :
        \/ (pc[t] # "idle") ~> (pc[t] = "idle")
        \/ []<><<OtherCasSucceeds(t)>>_vars

\* the compare-and-swap of the release of thread 1 failed, and it goes round
C20_Witness ==
    /\ pc[1] = "release_load"
    /\ since[1] > 0
    /\ ~Wrapped

(***************************************************************************)
(* The claims about ijha_h32_initex.                                       *)
(***************************************************************************)
\* S: the base-2 logarithm of n rounded up to a power of two
Log2Rounded(n) ==
    IF n > BigPool THEN 31
    ELSE CHOOSE s \in 0..30 : Pow2(s) >= n /\ \A r \in 0..(s - 1) : Pow2(r) < n

\* ijha_h32_initex has returned
AfterInitex == lastop = "initex"

\* the bits the layout needs: index, generation, userflags and the in-use bit
LayoutBits ==
    Log2Rounded(arg.max_num_handles) + Cardinality(generation_mask)
    + arg.num_userflag_bits + 1

\* C21: ijha_h32_initex sets IJHA_H32_INIT_CONFIGURATION_UNSUPPORTED exactly
\* when log2(capacity_rounded) + K >= 32, so that every configuration it
\* accepts has S + G + K + 1 <= 32.
C21_UnsupportedExactly ==
    AfterInitex =>
        /\ (And(ret, IJHA_H32_INIT_CONFIGURATION_UNSUPPORTED) # Zero32)
             <=> (Log2Rounded(arg.max_num_handles) + arg.num_userflag_bits >= 32)
        /\ ret = IJHA_H32_INIT_NO_ERROR => LayoutBits <= 32

\* C21 as coded: line 702 tests (S - 1) + K >= 32 on unsigned, which is
\* S + K >= 33 for S >= 1 and, S - 1 being 0xffffffff, K = 0 for S = 0
C21_UnsupportedAsCoded ==
    AfterInitex =>
        ((And(ret, IJHA_H32_INIT_CONFIGURATION_UNSUPPORTED) # Zero32)
            <=> IF Log2Rounded(arg.max_num_handles) = 0
                THEN arg.num_userflag_bits = 0
                ELSE Log2Rounded(arg.max_num_handles) + arg.num_userflag_bits >= 33)

\* 2^30 handles and 2 userflag bits are accepted, and bit 29 is an index bit
\* and a userflag bit
C21_Witness ==
    /\ AfterInitex
    /\ arg.max_num_handles = BigPool
    /\ arg.num_userflag_bits = 2
    /\ ret = IJHA_H32_INIT_NO_ERROR
    /\ And(capacity_mask, userflags_mask) = {29}
    /\ LayoutBits = 33

\* ijha_h32_initex has returned IJHA_H32_INIT_NO_ERROR
Accepted == AfterInitex /\ ret = IJHA_H32_INIT_NO_ERROR

\* the four fields of a handle
LayoutMasks == <<userflags_mask, generation_mask, capacity_mask, in_use_bit>>

\* the fields share no bit, leave no bit out, the userflags have K bits and the
\* in-use bit is where the layout puts it
Tiles ==
    /\ \A i, j \in 1..4 : i # j => And(LayoutMasks[i], LayoutMasks[j]) = Zero32
    /\ Or(Or(userflags_mask, generation_mask), Or(capacity_mask, in_use_bit)) = AllOnes32
    /\ Cardinality(userflags_mask) = arg.num_userflag_bits
    /\ in_use_bit = IF And(arg.ijha_flags, IJHA_H32_INIT_DONT_USE_MSB_AS_IN_USE_BIT) = Zero32
                    THEN {31} ELSE Inc32(capacity_mask)

\* C22: in every configuration ijha_h32_initex accepts, with either layout,
\* userflags_mask, generation_mask, capacity_mask and in_use_bit are pairwise
\* disjoint and cover the 32 bits, userflags_mask has K bits, and in_use_bit is
\* 0x80000000 or capacity_mask + 1.
C22_LayoutTiles == Accepted => Tiles

\* C22 as coded: the fields tile the handle in the accepted configurations
\* that leave a bit to the in-use bit, S + K <= 31
C22_LayoutTilesWhenFits ==
    (Accepted /\ Log2Rounded(arg.max_num_handles) + arg.num_userflag_bits <= 31) => Tiles

\* 2^30 + 1 handles and 1 userflag bit with the in-use bit below: accepted, and
\* the in-use bit capacity_mask + 1 is bit 31, which is the userflag bit
C22_Witness ==
    /\ Accepted
    /\ arg.max_num_handles = BigPool + 1
    /\ arg.num_userflag_bits = 1
    /\ And(arg.ijha_flags, IJHA_H32_INIT_DONT_USE_MSB_AS_IN_USE_BIT) # Zero32
    /\ in_use_bit = userflags_mask
    /\ ~Tiles

\* the sizes passed fit the fields of the descriptor: 16 bits of stride, 8 bits
\* of handle offset, 8 bits of userdata offset
SizesFit ==
    /\ arg.non_inline_handle_size_bytes + arg.userdata_size_in_bytes_per_item < Pow2(16)
    /\ arg.handle_offset < Pow2(8)
    /\ arg.non_inline_handle_size_bytes < Pow2(8)

\* what the three macros read off the descriptor is what was passed
DecodesToArguments ==
    /\ ijha_h32_handle_stride(handles_stride_userdata_offset)
         = ToWord(arg.non_inline_handle_size_bytes + arg.userdata_size_in_bytes_per_item)
    /\ ijha_h32_handle_offset(handles_stride_userdata_offset) = ToWord(arg.handle_offset)
    /\ ijha_h32_userdata_offset(handles_stride_userdata_offset)
         = ToWord(arg.non_inline_handle_size_bytes)

\* one of the three size errors is set in the result
SizeError ==
    And(ret, Or(IJHA_H32_INIT_USERDATA_TOO_BIG,
                Or(IJHA_H32_INIT_HANDLE_OFFSET_TOO_BIG,
                   IJHA_H32_INIT_HANDLE_NON_INLINE_SIZE_TOO_BIG))) # Zero32

\* C23: when ijha_h32_initex returns IJHA_H32_INIT_NO_ERROR the descriptor
\* decodes to stride = non_inline_handle_size_bytes + userdata_size_in_bytes_per_item,
\* handle offset = handle_offset and userdata offset = non_inline_handle_size_bytes;
\* sizes that do not fit the 16/8/8-bit fields give one of the size errors.
C23_Descriptor ==
    AfterInitex =>
        /\ ret = IJHA_H32_INIT_NO_ERROR => DecodesToArguments
        /\ ~SizesFit => SizeError

\* C23 as coded: each size is tested by itself, never the sum that is stored
\* as the stride; the descriptor decodes to the arguments when the sizes fit
C23_DescriptorAsCoded ==
    AfterInitex =>
        /\ SizesFit => (DecodesToArguments /\ ~SizeError)
        /\ SizeError <=> \/ arg.userdata_size_in_bytes_per_item >= Pow2(16)
                         \/ arg.handle_offset >= Pow2(8)
                         \/ arg.non_inline_handle_size_bytes >= Pow2(8)

\* a handle of 4 bytes beside 65535 bytes of userdata: accepted, the stride
\* 65539 is read back as 3 and its bit 16 as handle offset 1
C23_Witness ==
    /\ Accepted
    /\ arg.non_inline_handle_size_bytes = 4
    /\ arg.userdata_size_in_bytes_per_item = 65535
    /\ arg.handle_offset = 0
    /\ ijha_h32_handle_stride(handles_stride_userdata_offset) = ToWord(3)
    /\ ijha_h32_handle_offset(handles_stride_userdata_offset) = One32

\* the errors the tests of ijha_h32_initex find in the arguments
DetectedErrors ==
    (IF IF Log2Rounded(arg.max_num_handles) = 0 THEN arg.num_userflag_bits = 0
        ELSE Log2Rounded(arg.max_num_handles) + arg.num_userflag_bits >= 33
     THEN IJHA_H32_INIT_CONFIGURATION_UNSUPPORTED ELSE Zero32)
    \cup (IF /\ And(arg.ijha_flags, IJHA_H32_INIT_THREADSAFE) # Zero32
             /\ And(arg.ijha_flags, IJHA_H32_INIT_LIFOFIFO_MASK) = IJHA_H32_INIT_FIFO
          THEN IJHA_H32_INIT_THREADSAFE_UNSUPPORTED ELSE Zero32)
    \cup (IF arg.userdata_size_in_bytes_per_item >= Pow2(16)
          THEN IJHA_H32_INIT_USERDATA_TOO_BIG ELSE Zero32)
    \cup (IF arg.handle_offset >= Pow2(8)
          THEN IJHA_H32_INIT_HANDLE_OFFSET_TOO_BIG ELSE Zero32)
    \cup (IF arg.non_inline_handle_size_bytes >= Pow2(8)
          THEN IJHA_H32_INIT_HANDLE_NON_INLINE_SIZE_TOO_BIG ELSE Zero32)
    \cup (IF And(arg.ijha_flags, 0..4) # Zero32
          THEN IJHA_H32_INIT_INVALID_INPUT_FLAGS ELSE Zero32)

\* the words h of a pool of cap slots are chained: slot i links to slot i + 1,
\* the last to slot 0, and none is in use
FreelistBuilt(h, cap, cmask, inuse) ==
    \A i \in DOMAIN h :
        /\ And(h[i], cmask) = (IF i = cap - 1 THEN Zero32 ELSE ToWord(i + 1))
        /\ And(h[i], inuse) = Zero32

\* C24: ijha_h32_initex sets IJHA_H32_INIT_THREADSAFE_UNSUPPORTED exactly when
\* THREADSAFE comes with the LIFO/FIFO mask equal to FIFO, sets
\* IJHA_H32_INIT_INVALID_INPUT_FLAGS exactly when one of the low 5 bits of
\* ijha_flags is set, returns the OR of all errors it detects, and resets the
\* allocator (size 0, freelist built) only when it returns
\* IJHA_H32_INIT_NO_ERROR: otherwise the memory and the two freelist cursors
\* are left as they were.
C24_InitFlagErrors ==
    [][lastop' = "initex" =>
          /\ (1 \in ret') <=>
                 /\ And(arg.ijha_flags, IJHA_H32_INIT_THREADSAFE) # Zero32
                 /\ And(arg.ijha_flags, IJHA_H32_INIT_LIFOFIFO_MASK) = IJHA_H32_INIT_FIFO
          /\ (5 \in ret') <=> (And(arg.ijha_flags, 0..4) # Zero32)
          /\ ret' = DetectedErrors
          /\ ret' # IJHA_H32_INIT_NO_ERROR =>
                 /\ handles' = handles
                 /\ freelist_enqueue_index' = freelist_enqueue_index
                 /\ freelist_dequeue_index' = freelist_dequeue_index
          /\ ret' = IJHA_H32_INIT_NO_ERROR =>
                 /\ size' = 0
                 /\ FreelistBuilt(handles', capacity', capacity_mask', in_use_bit')
                 /\ freelist_enqueue_index' = ToWord(capacity' - 1)
                 /\ freelist_dequeue_index' =
                        (IF And(arg.ijha_flags, IJHA_H32_INIT_THREADSAFE) # Zero32
                         THEN One32 ELSE Zero32)]_vars

\* thread-safe FIFO with a low flag bit set and a handle that is too large:
\* three errors are returned at once and the memory still holds 0xff
C24_Witness ==
    /\ AfterInitex
    /\ arg.ijha_flags = Or(Or(IJHA_H32_INIT_THREADSAFE, IJHA_H32_INIT_FIFO), {2})
    /\ arg.non_inline_handle_size_bytes = 256
    /\ ret = Or(IJHA_H32_INIT_THREADSAFE_UNSUPPORTED,
                Or(IJHA_H32_INIT_INVALID_INPUT_FLAGS,
                   IJHA_H32_INIT_HANDLE_NON_INLINE_SIZE_TOO_BIG))
    /\ handles[0] = AllOnes32
    /\ freelist_dequeue_index = AllOnes32
    /\ acquire_func = "null"

(***************************************************************************)
(* The claim about ijha_h32_userflags_set.                                 *)
(***************************************************************************)
\* the handle passed to userflags_set, with the userflags that were set
WithUserflags == Or(And(arg, Not32(userflags_mask)), arg2)

\* C25: userflags_set(h, uf), with uf within userflags_mask and h matching the
\* stored word outside the userflags, returns the userflags that were stored,
\* replaces the userflag bits of the stored word by uf and nothing else of it,
\* and changes no other slot, nor size, nor the freelist cursors; afterwards
\* (h & ~userflags_mask) | uf is valid and release would accept it, and h is
\* valid iff its userflag bits are uf.
C25_UserflagsSet ==
    /\ [](lastop = "userflags_set" =>
             /\ ijha_h32_valid(WithUserflags)
             /\ ReleaseAccepts(WithUserflags)
             /\ ijha_h32_valid(arg) <=> (And(arg, userflags_mask) = arg2))
    /\ [][lastop' = "userflags_set" =>
             /\ ret' = And(handles[ToNat(ijha_h32_index(arg'))], userflags_mask)
             /\ And(handles'[ToNat(ijha_h32_index(arg'))], userflags_mask) = arg2'
             /\ And(handles'[ToNat(ijha_h32_index(arg'))], Not32(userflags_mask))
                  = And(handles[ToNat(ijha_h32_index(arg'))], Not32(userflags_mask))
             /\ \A i \in DOMAIN handles :
                    i # ToNat(ijha_h32_index(arg')) => handles'[i] = handles[i]
             /\ size' = size
             /\ freelist_enqueue_index' = freelist_enqueue_index
             /\ freelist_dequeue_index' = freelist_dequeue_index]_vars

\* all userflags of a live handle were cleared through a copy of it that had
\* them wrong already, while another handle is live: the copy is still not
\* valid, the handle with the flags cleared is
C25_Witness ==
    /\ lastop = "userflags_set"
    /\ userflags_mask # Zero32
    /\ ret = userflags_mask
    /\ arg2 = Zero32
    /\ And(arg, userflags_mask) # Zero32
    /\ ~ijha_h32_valid(arg)
    /\ size >= 2

(***************************************************************************)
(* The claims about ijha_fifo_ds_h32i32.                                   *)
(***************************************************************************)
\* the dense indices below the number of live handles: 0 .. num_handles - 1
DsPacked == {ToWord(i) : i \in 0..(num_handles - 1)}

\* record[h & capacity_mask].dense_index
DsDenseOf(h) == handles[ToNat(And(h, capacity_mask))].dense_index

\* C26: in every state reached from ijha_fifo_ds_h32i32_init by acquires and by
\* releases of valid handles, every live handle h with sparse index s has
\* record[s].dense_index < num_handles and
\* record[record[s].dense_index].sparse_index = s, and the dense indices of the
\* live handles are exactly 0 .. num_handles - 1, none of them twice.
C26_DsMapping ==
    pc = "idle" =>
        /\ \A h \in held :
               /\ DsDenseOf(h) \in DsPacked
               /\ handles[ToNat(DsDenseOf(h))].sparse_index = And(h, capacity_mask)
        /\ {DsDenseOf(h) : h \in held} = DsPacked
        /\ Cardinality(held) = num_handles

\* a release has moved the back of the packed region into the place of the
\* handle released, and handles are live
C26_Witness ==
    /\ pc = "idle"
    /\ lastop = "release"
    /\ ret = Zero32
    /\ loc.move_to_index # loc.move_from_index
    /\ Cardinality(held) >= 2

\* what ijha_fifo_ds_h32i32_dense_index(g) returns after the step
DsDenseIndexAfter(g) ==
    IF /\ handles'[ToNat(And(g, capacity_mask))].handle = g
       /\ And(handles'[ToNat(And(g, capacity_mask))].next_index,
              IJHA_FIFO_H32_NEXT_INDEX_FREE_BIT) = Zero32
    THEN handles'[ToNat(And(g, capacity_mask))].dense_index
    ELSE IJHA_FIFO_H32_INVALID_INDEX

\* a step that is an acquire which succeeds
DsAcquired == lastop' = "acquire" /\ ret' # IJHA_FIFO_H32_INVALID_INDEX

\* a step that is a release of a valid handle
DsReleased == lastop' = "release" /\ arg' \in held

\* the caller finds what it stored for each live handle at the handle's dense index
DsPayloadInPlace ==
    \A g \in held : owned[ToNat(ijha_fifo_ds_h32i32_dense_index(g))] = g

\* C27: acquire returns the number of live handles before the call as the dense
\* index of the new handle; release of a valid handle h with dense index d while
\* n handles are live sets move_from = n - 1 and move_to = d and returns 1 iff
\* d = n - 1; afterwards dense_index(h) is INVALID_INDEX, the handle that had
\* dense index n - 1 has d, and every other live handle keeps its dense index;
\* a caller that does ext[move_to] = ext[move_from] after every release finds
\* the payload of each live handle g at ext[dense_index(g)].
C27_MoveProtocol ==
    /\ [](pc = "idle" => DsPayloadInPlace)
    /\ [][/\ DsAcquired =>
                 /\ ret' = ToWord(num_handles)
                 /\ DsDenseIndexAfter(handle_out') = ret'
          /\ DsReleased =>
                 /\ loc'.move_from_index = ToWord(num_handles - 1)
                 /\ loc'.move_to_index = ijha_fifo_ds_h32i32_dense_index(arg')
                 /\ ret' = IF ijha_fifo_ds_h32i32_dense_index(arg') = ToWord(num_handles - 1)
                           THEN One32 ELSE Zero32
                 /\ DsDenseIndexAfter(arg') = IJHA_FIFO_H32_INVALID_INDEX
                 /\ \A g \in held \ {arg'} :
                        DsDenseIndexAfter(g) =
                            IF ijha_fifo_ds_h32i32_dense_index(g) = ToWord(num_handles - 1)
                            THEN ijha_fifo_ds_h32i32_dense_index(arg')
                            ELSE ijha_fifo_ds_h32i32_dense_index(g)]_vars

\* three handles are live after a release that moved the back handle to dense
\* index 0, and the caller has moved its payload
C27_Witness ==
    /\ pc = "idle"
    /\ lastop = "release"
    /\ ret = Zero32
    /\ loc.move_to_index = Zero32
    /\ loc.move_from_index = ToWord(3)
    /\ Cardinality(held) = 3
    /\ \A g \in held : owned[ToNat(ijha_fifo_ds_h32i32_dense_index(g))] = g

\* the pool was initialised with max_num_handles = n
DsPoolOf(n) == capacity_mask = Dec32(ijha_h32__roundup(ToWord(n)))

\* after ijha_fifo_ds_h32i32_init with n handles and no payload: the first four
\* acquires in a row succeed with the dense indices 0, 1, 2, 3, and the release
\* of the second handle right after them reports move_from = 3, move_to = 1 and
\* is_back = 0 and leaves the fourth handle at dense index 1, the third at 2
DsSwapToBack(n) ==
    (DsPoolOf(n) /\ run.on) =>
        /\ \A i \in 1..Len(run.acq) :
               i <= 4 =>
                   /\ run.acq[i].ret = ToWord(i - 1)
                   /\ run.acq[i].handle \in held \cup {run.rel[j].handle : j \in 1..Len(run.rel)}
        /\ (/\ Len(run.acq) = 4
            /\ run.rel # <<>>
            /\ run.rel[1].handle = run.acq[2].handle) =>
               /\ run.rel[1].move_from_index = ToWord(3)
               /\ run.rel[1].move_to_index = One32
               /\ run.rel[1].ret = Zero32
               /\ ijha_fifo_ds_h32i32_dense_index(run.acq[4].handle) = One32
               /\ ijha_fifo_ds_h32i32_dense_index(run.acq[3].handle) = ToWord(2)

\* C28 as stated: after initializing DS with N=4 and no payload, four successive
\* acquires succeed and return handles Ha,Hb,Hc,Hd with dense indices 0,1,2,3;
\* releasing Hb then reports move_from=3, move_to=1 and is_back=false, after
\* which dense_index(Hd) == 1 and dense_index(Hc) == 2.
C28_SwapToBack == DsSwapToBack(4)

\* C28: after initializing DS with N=5 and no payload, four successive acquires
\* succeed and return handles Ha,Hb,Hc,Hd with dense indices 0,1,2,3; releasing
\* Hb then reports move_from=3, move_to=1 and is_back=false, after which
\* dense_index(Hd) == 1 and dense_index(Hc) == 2.
C28_SwapToBackOfFive == DsSwapToBack(5)

\* the pool of N=5 after four acquires in a row and the release of the second
\* handle
C28_Witness ==
    /\ DsPoolOf(5)
    /\ run.on
    /\ Len(run.acq) = 4
    /\ run.rel # <<>>
    /\ run.rel[1].handle = run.acq[2].handle
    /\ lastop = "release"

\* a step that is an acquire from a pool that is full: num_handles == capacity_mask
DsAcquireOnFull == lastop' = "acquire" /\ ToWord(num_handles) = capacity_mask

\* the step leaves dense_index and sparse_index of every record as they are
DsMappingKept ==
    \A i \in DsSlots :
        /\ handles'[i].dense_index = handles[i].dense_index
        /\ handles'[i].sparse_index = handles[i].sparse_index

\* C29: ijha_fifo_ds_h32i32_dense_index(h) returns INVALID_INDEX for every
\* handle h that is not a currently live handle (never issued, released, or of
\* another generation) and a value below num_handles for a live one; an acquire
\* from a full pool (num_handles == capacity_mask) returns INVALID_INDEX, writes
\* 0 to handle_out and changes no record's dense_index or sparse_index.
C29_QueryAndExhaustion ==
    /\ [](lastop = "dense_index" =>
             /\ arg \notin held => ret = IJHA_FIFO_H32_INVALID_INDEX
             /\ arg \in held => ret \in DsPacked)
    /\ [][DsAcquireOnFull =>
             /\ ret' = IJHA_FIFO_H32_INVALID_INDEX
             /\ handle_out' = Zero32
             /\ num_handles' = num_handles
             /\ DsMappingKept]_vars

\* the dense index of a handle that was released is asked for after an acquire
\* from the full pool has failed
C29_Witness ==
    /\ lastop = "dense_index"
    /\ arg \notin held
    /\ arg # Zero32
    /\ ret = IJHA_FIFO_H32_INVALID_INDEX
    /\ FifoFull
    /\ handle_out = Zero32
    /\ And(Shl32(generation_mask, 1), generation_mask) # Zero32

\* a step that is a release of a handle that is not valid
DsReleasedInvalid == lastop' = "release" /\ arg' \notin held

\* C30 as stated: a release of an invalid handle (for example of the same handle
\* twice) is reported through the return path without raising an assertion,
\* reads and writes no record outside [0, capacity_rounded), and leaves
\* num_handles and every record's dense_index and sparse_index unchanged.
C30_ReleaseInBand ==
    [][DsReleasedInvalid =>
          /\ pc' = "idle"
          /\ \A index \in loc'.accessed : InMemory(index)
          /\ num_handles' = num_handles
          /\ DsMappingKept]_vars

\* C30: ijha_fifo_ds_h32i32_release assumes a valid handle: called with an
\* invalid one (for example the same handle twice) it reads the record at
\* INVALID_INDEX, outside [0, capacity_rounded), and does not return in-band: a
\* build with assertions stops at the assertion
\* sparse_index_of_removed != INVALID_INDEX, with num_handles and every record's
\* dense_index and sparse_index unchanged and nothing returned; without
\* assertions the behaviour is undefined.
C30_ReleaseInvalidAsserts ==
    [][DsReleasedInvalid =>
          /\ IJHA_FIFO_H32_INVALID_INDEX \in loc'.accessed
          /\ ~InMemory(IJHA_FIFO_H32_INVALID_INDEX)
          /\ pc' \in {"assert", "undefined"}
          /\ pc' = "assert" =>
                 /\ num_handles' = num_handles
                 /\ DsMappingKept
                 /\ UNCHANGED <<ret, freelist_enqueue_index, freelist_dequeue_index>>]_vars

\* a handle that was acquired and released is released again, and the program
\* has stopped at the assertion after the read of the record at INVALID_INDEX
C30_Witness ==
    /\ lastop = "release"
    /\ pc = "assert"
    /\ arg \notin held
    /\ handles[ToNat(And(arg, capacity_mask))].handle = arg
    /\ And(arg, generation_mask) # Zero32
    /\ IJHA_FIFO_H32_INVALID_INDEX \in loc.accessed

(***************************************************************************)
(* The claims about ijss.                                                  *)
(***************************************************************************)
\* the sparse indices the set has
SsMembers == {s \in 0..(handles.capacity - 1) : ijss_has(handles, s)}

\* size is the number of members, and dense[sparse[s]] == s for each member
SsCounted ==
    /\ handles.size = Cardinality(SsMembers)
    /\ \A s \in SsMembers : handles.dense[handles.sparse[s]] = s

\* C31 as stated: after any calls of ijss_add with sparse_index < capacity and
\* size < capacity, of ijss_remove and of ijss_reset, size is the number of
\* sparse indices s with ijss_has(s), and dense[sparse[s]] == s for each of them.
C31_SizeIsMembers == pc = "idle" => SsCounted

\* C31: after any calls of ijss_add with sparse_index < capacity, size < capacity
\* and a sparse index the set does not have, of ijss_remove and of ijss_reset,
\* size is the number of sparse indices s with ijss_has(s), and
\* dense[sparse[s]] == s for each of them.
C31_SizeIsMembersAddedOnce == (pc = "idle" /\ fresh) => (SsCounted /\ SsMembers = held)

\* two indices are in a set of three after a removal that moved the back
C31_Witness ==
    /\ pc = "idle" /\ fresh /\ ~follow
    /\ lastop = "remove" /\ ret = 1
    /\ handles.capacity = 3 /\ handles.size = 2

\* what ijss_remove(s) reports of a set that has s: self before, after the call
SsRemoveReported(self, s, after, out, r) ==
    LET d == self.sparse[s]
        size_before == self.size
    IN  /\ out.move_to_index = d
        /\ out.move_from_index = size_before - 1
        /\ after.size = size_before - 1
        /\ r = (IF d # size_before - 1 THEN 1 ELSE 0)

\* what the set is after ijss_remove(s)
SsRemoved(self, s, after) ==
    /\ ~ijss_has(after, s)
    /\ \A t \in 0..(self.capacity - 1) :
          (t # s /\ ijss_has(self, t)) => ijss_has(after, t)
    /\ after.dense[self.sparse[s]] = self.dense[self.size - 1]

\* C32 as stated: ijss_remove(s) of an s the set does not have returns -1 and
\* changes neither size nor the arrays nor the out-parameters; of an s it has,
\* with d = sparse[s], it sets move_to = d and move_from = size_before - 1,
\* decrements size, returns 1 iff d != size_before - 1 (else 0), and afterwards
\* s is not in the set, every other member still is, and the element that was
\* at dense position size_before - 1 is at dense position d.
C32_RemoveContract ==
    [][(lastop' = "remove" /\ pc = "idle") =>
          IF ijss_has(handles, arg')
          THEN /\ SsRemoveReported(handles, arg', handles', loc', ret')
               /\ SsRemoved(handles, arg', handles')
          ELSE ret' = -1 /\ handles' = handles /\ loc' = loc]_vars

\* C32: the same, where what the set is afterwards is said of a set no index
\* was added to while it had that index.
C32_RemoveContractAddedOnce ==
    [][(lastop' = "remove" /\ pc = "idle") =>
          IF ijss_has(handles, arg')
          THEN /\ SsRemoveReported(handles, arg', handles', loc', ret')
               /\ fresh => SsRemoved(handles, arg', handles')
          ELSE ret' = -1 /\ handles' = handles /\ loc' = loc]_vars

\* the removal of the index at dense position 0 moved the back from position 2
C32_Witness ==
    /\ pc = "idle" /\ lastop = "remove" /\ ret = 1
    /\ loc.move_to_index = 0 /\ loc.move_from_index = 2
    /\ handles.size = 2 /\ fresh

\* dense[0..capacity) is a permutation of 0..capacity-1
SsPermutation ==
    {handles.dense[i] : i \in 0..(handles.capacity - 1)} = 0..(handles.capacity - 1)

\* the allocations since ijss_reset_identity returned 0, 1, 2, ... and the
\* allocations after removals returned the removed handles, the last first
SsLogInOrder ==
    /\ \A i \in DOMAIN stale.acq : stale.acq[i] = i - 1
    /\ \A i \in DOMAIN stale.re : stale.re[i] = stale.rel[Len(stale.rel) + 1 - i]

\* an allocation returns a handle that is not in the set: the one removed
\* last of those not handed back, or size when there is none
SsAllocated ==
    /\ ret' \notin held
    /\ ~ijss_has(handles, ret')
    /\ ret' = (IF run # <<>> THEN Head(run) ELSE handles.size)

\* C33: after ijss_reset_identity, with alloc as ijss_add(ijss_sparse_index(size))
\* when size < capacity and free as ijss_remove, no alloc returns a handle that
\* is in the set, dense[0..capacity) stays a permutation of 0..capacity-1, and
\* removed handles are handed back most recently removed first; with capacity 4
\* the allocs return 0,1,2,3 and after removing 1 and then 3 the next two
\* return 3 then 1.
C33_LifoAllocator ==
    /\ []((follow /\ pc = "idle") => (SsPermutation /\ SsLogInOrder))
    /\ [][(lastop' = "alloc" /\ ret' # SSHA_INVALID_HANDLE) => SsAllocated]_vars

\* capacity 4: four allocs, 1 and 3 removed, two allocs
C33_Witness ==
    /\ handles.capacity = 4 /\ pc = "idle" /\ lastop = "alloc"
    /\ stale.on /\ stale.acq = <<0, 1, 2, 3>> /\ stale.rel = <<1, 3>>
    /\ Len(stale.re) = 2

(***************************************************************************)
(* The claims about the generations of ijha_fifo_h32.                      *)
(***************************************************************************)
\* the number of generation bits of the pool
FifoGenerationBits == Cardinality(generation_mask)

\* the generation of handle is neither 0 nor all ones, and handle is neither
\* 0 nor 0xffffffff
FifoGenerationInside(handle) ==
    /\ And(handle, generation_mask) # Zero32
    /\ And(handle, generation_mask) # generation_mask
    /\ handle # Zero32
    /\ handle # AllOnes32

\* C34: with two or more generation bits every handle an acquire returns, and
\* so every handle that is held, has a generation that is neither 0 nor all
\* ones and is neither 0 nor 0xffffffff, whatever the userflags and the calls
\* before; no assertion of the acquire fails.
C34_GenerationNeverZeroNorFull ==
    /\ (lastop = "acquire" /\ ret # IJHA_FIFO_H32_INVALID_INDEX /\ FifoGenerationBits >= 2)
          => FifoGenerationInside(handle_out)
    /\ FifoGenerationBits >= 2 => \A h \in held : FifoGenerationInside(h)
    /\ lastop = "acquire" => pc = "idle"

\* an acquire with all userflags set returned the last generation before the
\* one that is skipped
C34_Witness ==
    /\ lastop = "acquire" /\ ret # IJHA_FIFO_H32_INVALID_INDEX
    /\ FifoGenerationBits >= 2
    /\ And(handle_out, generation_mask) = And(Shl32(generation_mask, 1), generation_mask)
    /\ And(handle_out, FifoUserflagsMask) = FifoUserflagsMask
    /\ ~fresh

\* the times a released handle's slot is acquired again before a handle
\* equal to it is returned
FifoReuseBudget ==
    IF FifoGenerationBits = 0 THEN 0
    ELSE IF FifoGenerationBits = 1 THEN 1
    ELSE Pow2(FifoGenerationBits) - 3

\* C35: after a handle h has been acquired and released, no acquire returns a
\* handle equal to h, and ijha_fifo_h32_valid(h) stays false, until the slot
\* of h has been acquired N more times, and the acquire after these N, if
\* passed the userflags of h, returns h: N = 0 for 0 generation bits, 1 for 1
\* generation bit and 2^G - 3 for G >= 2 generation bits.
C35_ReuseBudget ==
    /\ []((pc = "idle" /\ stale.on) =>
             /\ stale.hit => (stale.n >= FifoReuseBudget /\ ijha_fifo_h32_valid(stale.h))
             /\ ~stale.hit => ~ijha_fifo_h32_valid(stale.h))
    /\ [][(/\ lastop' = "acquire" /\ ret' # IJHA_FIFO_H32_INVALID_INDEX
           /\ stale.on /\ ~stale.hit /\ stale.n = FifoReuseBudget
           /\ And(handle_out', capacity_mask) = And(stale.h, capacity_mask)
           /\ arg' = And(stale.h, FifoUserflagsMask))
             => handle_out' = stale.h]_vars

\* with three generation bits the released handle came back after its slot
\* had been acquired five times
C35_Witness ==
    /\ pc = "idle" /\ stale.on /\ stale.hit
    /\ FifoGenerationBits = MaxGenBits + 1
    /\ stale.n = Pow2(MaxGenBits + 1) - 3

(***************************************************************************)
(* The claims about the queue of free slots of the FIFO allocator.         *)
(***************************************************************************)
\* the slot whose word has the in-use bit clear
FifoSlotFree(i) == And(handles[i], in_use_bit) = Zero32

\* IJHA_H32_assert((*stored_handle & in_use_bit) == 0) of ijha_h32__release_fifo,
\* read after the in-use bit of the released slot is cleared
FifoReleaseAssertion(idx) ==
    \/ freelist_enqueue_index = idx
    \/ FifoSlotFree(ToNat(freelist_enqueue_index))

\* C36: in every state of a FIFO allocator the slot at freelist_enqueue_index
\* and the slot at freelist_dequeue_index are free and size <= capacity - 1;
\* the assertion of ijha_h32__release_fifo holds in every release, and a
\* release changes the word of no slot that is in use but the released one.
C36_FifoQueueNeverEmpty ==
    /\ [](ijha_h32_is_fifo =>
             /\ FifoSlotFree(ToNat(freelist_enqueue_index))
             /\ FifoSlotFree(ToNat(freelist_dequeue_index))
             /\ size <= capacity - 1)
    /\ [][(ijha_h32_is_fifo /\ lastop' = "release" /\ ret' # IJHA_H32_INVALID_INDEX) =>
             /\ FifoReleaseAssertion(ret')
             /\ freelist_enqueue_index # ret'
             /\ \A i \in Slots :
                   (~FifoSlotFree(i) /\ i # ToNat(ret')) => handles'[i] = handles[i]]_vars

\* a release to a FIFO pool that had one free slot only
C36_Witness ==
    /\ ijha_h32_is_fifo /\ lastop = "release" /\ ret # IJHA_H32_INVALID_INDEX
    /\ size = capacity - 2 /\ capacity >= 3

RECURSIVE FifoQueueFrom(_, _, _)
\* the n slots of the queue of free slots from head on, each linked to the
\* next by the index bits of its word
FifoQueueFrom(memory, head, n) ==
    IF n = 0 THEN <<>>
    ELSE <<head>> \o FifoQueueFrom(memory, ToNat(And(memory[head], capacity_mask)), n - 1)

\* the queue of free slots
FifoQueue == FifoQueueFrom(handles, ToNat(freelist_dequeue_index), capacity - size)

\* C37: the free slots of a FIFO allocator are a queue that holds
\* 0,1,...,capacity-1 after initialisation and reset: every successful acquire
\* returns its front and removes it, every successful release appends the
\* released index to its back, nothing else changes it, and
\* freelist_enqueue_index is its back.
C37_FifoQueueOrder ==
    /\ [](ijha_h32_is_fifo =>
             /\ lastop \in {"init", "reset"} => FifoQueue = [i \in 1..capacity |-> i - 1]
             /\ FifoQueue[Len(FifoQueue)] = ToNat(freelist_enqueue_index)
             /\ \A i \in DOMAIN FifoQueue : FifoSlotFree(FifoQueue[i]))
    /\ [][ijha_h32_is_fifo =>
             \E after \in {FifoQueueFrom(handles', ToNat(freelist_dequeue_index'),
                                         capacity - size')} :
                IF lastop' = "acquire" /\ ret' # IJHA_H32_INVALID_INDEX
                THEN ToNat(ret') = Head(FifoQueue) /\ after = Tail(FifoQueue)
                ELSE IF lastop' = "release" /\ ret' # IJHA_H32_INVALID_INDEX
                THEN after = Append(FifoQueue, ToNat(ret'))
                ELSE IF lastop' = "reset"
                THEN after = [i \in 1..capacity |-> i - 1]
                ELSE after = FifoQueue]_vars

\* slot 0 is acquired again after it was released
C37_Witness ==
    /\ ijha_h32_is_fifo /\ lastop = "acquire" /\ ret = Zero32 /\ ~fresh
    /\ capacity >= 3

(***************************************************************************)
(* The claim about the policy ijha_h32_initex installs.                    *)
(***************************************************************************)
\* ijha_h32_initex has returned IJHA_H32_INIT_NO_ERROR
InitexDone == lastop = "initex" /\ ret = IJHA_H32_INIT_NO_ERROR

\* the release function installed is the FIFO one exactly if ijha_h32_is_fifo
PolicyAgrees == (release_func = "ijha_h32__release_fifo") <=> ijha_h32_is_fifo

\* the flags for which they differ: neither policy flag without
\* IJHA_H32_INIT_THREADSAFE, both policy flags with it
PolicyFlagsAmbiguous(ijha_flags) ==
    IF And(ijha_flags, IJHA_H32_INIT_THREADSAFE) = Zero32
    THEN And(ijha_flags, IJHA_H32_INIT_LIFOFIFO_MASK) = Zero32
    ELSE And(ijha_flags, IJHA_H32_INIT_LIFOFIFO_MASK) = IJHA_H32_INIT_LIFOFIFO_MASK

\* C38 as stated: for every ijha_flags for which ijha_h32_initex returns
\* IJHA_H32_INIT_NO_ERROR, neither and both of LIFO and FIFO included, the
\* release function installed is the FIFO one if and only if ijha_h32_is_fifo.
C38_PolicyConsistent == InitexDone => PolicyAgrees

\* C38, what the code does: the release function installed is the FIFO one if
\* and only if ijha_h32_is_fifo, except when neither policy flag is passed
\* without IJHA_H32_INIT_THREADSAFE (FIFO release, ijha_h32_is_fifo false) or
\* both are passed with it (thread-safe LIFO release, ijha_h32_is_fifo true).
C38_PolicyAsCoded == InitexDone => (PolicyAgrees <=> ~PolicyFlagsAmbiguous(arg.ijha_flags))

\* no policy flag: the FIFO release is installed and ijha_h32_is_fifo is false
C38_Witness ==
    /\ InitexDone
    /\ arg.ijha_flags = Zero32
    /\ release_func = "ijha_h32__release_fifo"
    /\ ~ijha_h32_is_fifo

\* the assertion of ijha_h32__release_fifo, on an allocator initialised
\* without a policy flag
NoPolicyReleaseAsserts ==
    [][(lastop' = "release" /\ ret' # IJHA_H32_INVALID_INDEX
        /\ release_func = "ijha_h32__release_fifo") => FifoReleaseAssertion(ret')]_vars


(***************************************************************************)
(* C39: two threads release the same valid handle.                         *)
(***************************************************************************)
\* a thread that passed the check of release and has not yet linked the slot
ReleaseBeforeCas == {"release_load", "release_store", "release_cas"}

\* the handles the threads hold or are inside release with
ReleaseCandidates ==
    UNION {owned[u] \cup (IF pc[u] \in ReleasePcs THEN {loc[u].handle} ELSE {}) :
               u \in Threads}

DsSsReleased == lastop = "release" /\ pc = "idle"

\* C40: while the program runs, the sparse set has as many members as the pool
\* has handles, ijss_dense_index(s) is the dense_index of record s for every
\* live s, ijss_sparse_index(d) is the sparse_index of record d for every
\* d < num_handles, the assertions of ijss_add and ijss_remove hold, and a
\* release of a valid handle gives the move_to_index and move_from_index that
\* ijss_remove gives and returns 1 exactly when ijss_remove returns 0.
C40_DsRefinesSs ==
    pc = "idle" =>
        /\ follow.asserts
        /\ follow.self.size = num_handles
        /\ \A s \in DsSlots :
               DsInUse(s) =>
                   ToWord(ijss_dense_index(follow.self, s)) = handles[s].dense_index
        /\ \A d \in 0..(num_handles - 1) :
               ToWord(ijss_sparse_index(follow.self, d)) = handles[d].sparse_index
        /\ DsSsReleased =>
               /\ follow.ret \in {0, 1}
               /\ ToWord(follow.move_to_index) = loc.move_to_index
               /\ ToWord(follow.move_from_index) = loc.move_from_index
               /\ (ret = One32) <=> (follow.ret = 0)

\* a handle that is not at the back was released while two others were live:
\* both moved the back to its place
C40_Witness ==
    /\ DsSsReleased
    /\ follow.ret = 1
    /\ ret = Zero32
    /\ num_handles = 2
    /\ loc.move_to_index = Zero32
    /\ loc.move_from_index = ToWord(2)

====
